---------------------------- MODULE Spec2Model ----------------------------
(***************************************************************************)
(* Model of the recursive-descent JSON parser of                           *)
(* src/challenges/04_json_parser/python/json_parser.py.                    *)
(*                                                                         *)
(* A character is a TLA+ string: the character itself for ASCII, a name    *)
(* for the three non-ASCII characters used ("nbsp" U+00A0, "sup2" U+00B2,  *)
(* "arab3" U+0663).  The input is a sequence of characters, the cursor a   *)
(* zero-based offset into it, as in Tokenizer.  A decoded string is the    *)
(* sequence of its code points.  Python's None is the string "None", which *)
(* is also how the parser's f-strings print it.                            *)
(***************************************************************************)
EXTENDS Integers, Sequences, FiniteSets, TLC

VARIABLES input, position, pc, stack, ret, outcome

vars == <<input, position, pc, stack, ret, outcome>>

\* The LinkedList of src/challenges/02_linked_list/python/linked_list.py:
\* its fields _head, _tail and _size, the Node objects it can reach (nodes),
\* the value the last call returned (retval), and the sequence that the
\* calls made so far give when applied to a plain sequence (elements).
VARIABLES head, tail, size, nodes, retval, elements

listvars == <<head, tail, size, nodes, retval, elements>>

\* The TaskStore of src/challenges/05_cli_tool/python/cli_tool.py: the text
\* of the file at its path (path), the list its caller gives to save (tasks), the
\* list last returned by load (loaded), and the calls made so far (calls).
VARIABLES path, tasks, loaded, calls

storevars == <<path, tasks, loaded, calls>>

(***************************************************************************)
(* Characters                                                              *)
(***************************************************************************)
None == "None"

AsciiDigits == {"0", "1", "2", "3", "4", "5", "6", "7", "8", "9"}

\* str.isspace(): the ASCII whitespace of JSON and any other Unicode space.
isspace(c) == c \in {" ", "\t", "\n", "\r", "nbsp"}

\* str.isdigit(): ASCII digits, other decimal digits (U+0663) and digits
\* that are not decimal (superscript two, U+00B2).
isdigit(c) == c \in AsciiDigits \cup {"arab3", "sup2"}

\* The decimal value int() and float() give a character; sup2 has none.
IsDecimal(c) == c \in AsciiDigits \cup {"arab3"}

DigitVal(c) ==
    CASE c = "0" -> 0 [] c = "1" -> 1 [] c = "2" -> 2 [] c = "3" -> 3
      [] c = "4" -> 4 [] c = "5" -> 5 [] c = "6" -> 6 [] c = "7" -> 7
      [] c = "8" -> 8 [] c = "9" -> 9 [] c = "arab3" -> 3

IsHexDigit(c) ==
    IsDecimal(c) \/ c \in {"a", "b", "c", "d", "e", "f", "A", "B", "C", "D", "E", "F"}

HexVal(c) ==
    CASE IsDecimal(c) -> DigitVal(c)
      [] c \in {"a", "A"} -> 10 [] c \in {"b", "B"} -> 11
      [] c \in {"c", "C"} -> 12 [] c \in {"d", "D"} -> 13
      [] c \in {"e", "E"} -> 14 [] c \in {"f", "F"} -> 15

LowerCase ==
    <<"a", "b", "c", "d", "e", "f", "g", "h", "i", "j", "k", "l", "m",
      "n", "o", "p", "q", "r", "s", "t", "u", "v", "w", "x", "y", "z">>

UpperCase ==
    <<"A", "B", "C", "D", "E", "F", "G", "H", "I", "J", "K", "L", "M",
      "N", "O", "P", "Q", "R", "S", "T", "U", "V", "W", "X", "Y", "Z">>

\* The index of c in the sequence s (c occurs in s).
IndexOf(s, c) == CHOOSE i \in 1..Len(s) : s[i] = c

\* ord(): the code point of a character of the model's alphabets.
Ord(c) ==
    CASE c = "\t" -> 9 [] c = "\n" -> 10 [] c = "\r" -> 13 [] c = " " -> 32
      [] c = "\"" -> 34 [] c = "+" -> 43 [] c = "," -> 44 [] c = "-" -> 45
      [] c = "." -> 46 [] c = "/" -> 47 [] c \in AsciiDigits -> 48 + DigitVal(c)
      [] c = ":" -> 58 [] c = "[" -> 91 [] c = "\\" -> 92 [] c = "]" -> 93
      [] c = "_" -> 95 [] c = "{" -> 123 [] c = "}" -> 125
      [] c = "nbsp" -> 160 [] c = "sup2" -> 178 [] c = "arab3" -> 1635
      [] \E i \in 1..Len(UpperCase) : UpperCase[i] = c -> 64 + IndexOf(UpperCase, c)
      [] \E i \in 1..Len(LowerCase) : LowerCase[i] = c -> 96 + IndexOf(LowerCase, c)

(***************************************************************************)
(* Values: one record shape for every JSON kind.                           *)
(*   t = "null" | "bool" (b) | "int" (n) | "float" (n * 10^e, normalised)  *)
(*     | "string" (s, code points) | "array" (items)                       *)
(*     | "object" (items: <<key, value>> pairs in dict order)              *)
(***************************************************************************)
MkVal(t, b, n, e, s, items) ==
    [t |-> t, b |-> b, n |-> n, e |-> e, s |-> s, items |-> items]

NoValue      == MkVal("none", FALSE, 0, 0, <<>>, <<>>)
NullVal      == MkVal("null", FALSE, 0, 0, <<>>, <<>>)
BoolVal(b)   == MkVal("bool", b, 0, 0, <<>>, <<>>)
IntVal(n)    == MkVal("int", FALSE, n, 0, <<>>, <<>>)
FloatVal(m, e) == MkVal("float", FALSE, m, e, <<>>, <<>>)
StrVal(s)    == MkVal("string", FALSE, 0, 0, s, <<>>)
ArrVal(xs)   == MkVal("array", FALSE, 0, 0, <<>>, xs)
ObjVal(kvs)  == MkVal("object", FALSE, 0, 0, <<>>, kvs)

(***************************************************************************)
(* Results of the parsing procedures: a value and the cursor after it, or  *)
(* the exception raised and the cursor when it was raised.                 *)
(***************************************************************************)
Ok(v, p) == [kind |-> "ok", value |-> v, position |-> p, message |-> <<>>]

\* ParseError(message, position): every raise passes the tokenizer's position.
ParseError(msg, p) ==
    [kind |-> "ParseError", value |-> NoValue, position |-> p, message |-> msg]

\* A ValueError raised by int(), float() or chr(); p is the cursor.
ValueError(p) ==
    [kind |-> "ValueError", value |-> NoValue, position |-> p, message |-> <<>>]

(***************************************************************************)
(* Tokenizer                                                               *)
(***************************************************************************)
current_char(inp, p) == IF p >= Len(inp) THEN None ELSE inp[p + 1]

\* eof() that holds everywhere.
eof_always(inp, p) == TRUE

\* eof() with the comparison off by one.
eof_past_end(inp, p) == p > Len(inp)

eof(inp, p) == p >= Len(inp)

\* skip_whitespace() that skips nothing.
skip_whitespace_none(inp, p) == p

\* skip_whitespace() that skips one character at most.
skip_whitespace_one(inp, p) ==
    IF current_char(inp, p) # None /\ isspace(current_char(inp, p))
    THEN p + 1
    ELSE p

RECURSIVE skip_whitespace(_, _)
skip_whitespace(inp, p) ==
    IF current_char(inp, p) # None /\ isspace(current_char(inp, p))
    THEN skip_whitespace(inp, p + 1)
    ELSE p

\* expect(char) that lets the end of the input stand for any character.
expect_lenient(inp, p, char) ==
    IF current_char(inp, p) # char /\ current_char(inp, p) # None
    THEN ParseError(<<"Expected '", char, "' but got '", current_char(inp, p), "'">>, p)
    ELSE Ok(NoValue, p + 1)

\* expect(char) that advances before it compares.
expect_advancing(inp, p, char) ==
    IF current_char(inp, p) # char
    THEN ParseError(<<"Expected '", char, "' but got '", current_char(inp, p), "'">>,
                    p + 1)
    ELSE Ok(NoValue, p + 1)

\* expect(char): the cursor after it, or the ParseError.
expect(inp, p, char) ==
    IF current_char(inp, p) # char
    THEN ParseError(<<"Expected '", char, "' but got '", current_char(inp, p), "'">>, p)
    ELSE Ok(NoValue, p + 1)


(***************************************************************************)
(* Python's conversions                                                    *)
(***************************************************************************)
RECURSIVE DecVal(_)
\* The value of a sequence of decimal digits.
DecVal(ds) ==
    IF ds = <<>> THEN 0
    ELSE 10 * DecVal(SubSeq(ds, 1, Len(ds) - 1)) + DigitVal(ds[Len(ds)])

Tail0(s, k) == SubSeq(s, k + 1, Len(s))

\* The first index of s holding a member of cs, or Len(s) + 1.
RECURSIVE IndexIn(_, _, _)
IndexIn(s, cs, i) ==
    IF i > Len(s) THEN i ELSE IF s[i] \in cs THEN i ELSE IndexIn(s, cs, i + 1)

AllDecimal(ds) == \A i \in 1..Len(ds) : IsDecimal(ds[i])

\* int(num_value) on a numeral text: an optional sign, then digits, each of
\* which must have a decimal value.
py_int(text, p) ==
    LET neg    == text # <<>> /\ text[1] = "-"
        digits == IF neg THEN Tail0(text, 1) ELSE text
    IN  IF digits = <<>> \/ ~AllDecimal(digits) THEN ValueError(p)
        ELSE Ok(IntVal(IF neg THEN 0 - DecVal(digits) ELSE DecVal(digits)), p)

RECURSIVE Normalise(_, _)
\* A decimal m * 10^e with the trailing zeros of m moved into e.
Normalise(m, e) ==
    IF m = 0 THEN <<0, 0>>
    ELSE IF m % 10 = 0 THEN Normalise(m \div 10, e + 1) ELSE <<m, e>>

\* float(num_value) on a numeral text: sign, integer digits, an optional
\* fraction and an optional exponent.  The float is kept as the decimal it
\* denotes (two numerals of the lengths modelled denote the same double iff
\* they denote the same decimal).
py_float(text, p) ==
    LET neg      == text # <<>> /\ text[1] = "-"
        body     == IF neg THEN Tail0(text, 1) ELSE text
        ePos     == IndexIn(body, {"e", "E"}, 1)
        mantissa == SubSeq(body, 1, ePos - 1)
        expPart  == Tail0(body, ePos)
        expNeg   == expPart # <<>> /\ expPart[1] = "-"
        expDigs  == IF expPart # <<>> /\ expPart[1] \in {"+", "-"}
                    THEN Tail0(expPart, 1) ELSE expPart
        dot      == IndexIn(mantissa, {"."}, 1)
        intDigs  == SubSeq(mantissa, 1, dot - 1)
        fracDigs == Tail0(mantissa, dot)
        m        == DecVal(intDigs \o fracDigs)
        ex       == (IF expNeg THEN 0 - DecVal(expDigs) ELSE DecVal(expDigs))
                    - Len(fracDigs)
        norm     == Normalise(IF neg THEN 0 - m ELSE m, ex)
    IN  IF intDigs \o fracDigs = <<>> \/ ~AllDecimal(intDigs \o fracDigs \o expDigs)
           \/ (ePos <= Len(body) /\ expDigs = <<>>)
        THEN ValueError(p)
        ELSE Ok(FloatVal(norm[1], norm[2]), p)

RECURSIVE StripLeft(_)
StripLeft(s) == IF s # <<>> /\ isspace(s[1]) THEN StripLeft(Tail(s)) ELSE s

RECURSIVE StripRight(_)
StripRight(s) ==
    IF s # <<>> /\ isspace(s[Len(s)]) THEN StripRight(SubSeq(s, 1, Len(s) - 1)) ELSE s

\* s starts with a hex digit, or with an underscore that a hex digit follows.
HexHead(s) ==
    IsHexDigit(s[1]) \/ (s[1] = "_" /\ Len(s) >= 2 /\ IsHexDigit(s[2]))

RECURSIVE HexBody(_, _)
\* The value of hex digits separated by single underscores, read after the
\* value acc, or -1 when the text is not of that form.
HexBody(s, acc) ==
    IF s = <<>> THEN acc
    ELSE IF ~HexHead(s) THEN 0 - 1
    ELSE HexBody(Tail(s), IF s[1] = "_" THEN acc ELSE 16 * acc + HexVal(s[1]))

\* The digits of int(hex_chars, 16), after the sign and the prefix.
int16_digits(w, neg) ==
    LET val == IF w = <<>> \/ ~IsHexDigit(w[1]) THEN 0 - 1 ELSE HexBody(w, 0)
    IN  [ok |-> val >= 0, value |-> IF neg THEN 0 - val ELSE val]

\* An optional 0x or 0X, which one underscore may follow.
HasHexPrefix(u) == Len(u) >= 2 /\ u[1] = "0" /\ u[2] \in {"x", "X"}

int16_prefixed(u, neg) ==
    int16_digits(IF HasHexPrefix(u)
                 THEN IF Len(u) >= 3 /\ u[3] = "_" THEN Tail0(u, 3) ELSE Tail0(u, 2)
                 ELSE u,
                 neg)

\* An optional sign.
int16_signed(t) ==
    int16_prefixed(IF t # <<>> /\ t[1] \in {"+", "-"} THEN Tail(t) ELSE t,
                   t # <<>> /\ t[1] = "-")

\* int(hex_chars, 16): surrounding whitespace, a sign, a 0x prefix and single
\* underscores between digits are all accepted by Python.
py_int16(text) == int16_signed(StripRight(StripLeft(text)))

\* chr(n) is defined for 0 <= n <= 0x10FFFF and raises ValueError otherwise.
chr_ok(n) == 0 <= n /\ n <= 1114111

(***************************************************************************)
(* Leaf parsers.  inp is the input and p the cursor on entry.              *)
(***************************************************************************)
RECURSIVE expect_keyword_from(_, _, _, _)
\* The loop of _expect_keyword from the i-th character of the keyword on:
\* advance() returns the current character and moves the cursor, and the
\* ParseError is raised with the cursor after that move.
expect_keyword_from(inp, p, keyword, i) ==
    IF i > Len(keyword) THEN Ok(NoValue, p)
    ELSE LET actual == current_char(inp, p)
         IN  IF actual # keyword[i]
             THEN ParseError(<<"Expected '", keyword[i], "' but got '", actual, "'">>,
                             p + 1)
             ELSE expect_keyword_from(inp, p + 1, keyword, i + 1)

\* _expect_keyword with the loop stopping one character short.
expect_keyword_short(inp, p, keyword) ==
    expect_keyword_from(inp, p, SubSeq(keyword, 1, Len(keyword) - 1), 1)

expect_keyword(inp, p, keyword) == expect_keyword_from(inp, p, keyword, 1)

parse_null(inp, p) ==
    LET r == expect_keyword(inp, p, <<"n", "u", "l", "l">>)
    IN  IF r.kind = "ok" THEN Ok(NullVal, r.position) ELSE r

parse_bool(inp, p) ==
    IF current_char(inp, p) = "t"
    THEN LET r == expect_keyword(inp, p, <<"t", "r", "u", "e">>)
         IN  IF r.kind = "ok" THEN Ok(BoolVal(TRUE), r.position) ELSE r
    ELSE LET r == expect_keyword(inp, p, <<"f", "a", "l", "s", "e">>)
         IN  IF r.kind = "ok" THEN Ok(BoolVal(FALSE), r.position) ELSE r

\* escape_map of _parse_escape_sequence, as code points.
InEscapeMap(c) == c \in {"n", "t", "r", "\"", "\\", "/"}

\* escape_map with the entries of n and t exchanged.
EscapeMap_swapped(c) ==
    CASE c = "n" -> 9 [] c = "t" -> 10 [] c = "r" -> 13
      [] c = "\"" -> 34 [] c = "\\" -> 92 [] c = "/" -> 47

EscapeMap(c) ==
    CASE c = "n" -> 10 [] c = "t" -> 9 [] c = "r" -> 13
      [] c = "\"" -> 34 [] c = "\\" -> 92 [] c = "/" -> 47

\* _parse_escape_sequence, entered with the cursor after the backslash.  The
\* four advance() calls of the \u branch move the cursor by four whatever is
\* left of the input, and collect the characters that exist.
parse_escape_sequence(inp, p) ==
    LET char == current_char(inp, p)
    IN  IF InEscapeMap(char) THEN Ok(EscapeMap(char), p + 1)
        ELSE IF char = "u"
        THEN LET last      == IF p + 5 <= Len(inp) THEN p + 5 ELSE Len(inp)
                 hex_chars == SubSeq(inp, p + 2, last)
                 code      == py_int16(hex_chars)
             IN  IF code.ok /\ chr_ok(code.value)
                 THEN Ok(code.value, p + 5)
                 ELSE ValueError(p + 5)
        ELSE ParseError(<<"Invalid escape sequence: \\", char>>, p + 1)

\* One pass of the while loop of _parse_string from cursor p: the code
\* point appended and the cursor after it ("ok"), the closing quote ("end"),
\* or the exception raised.
string_step(inp, p) ==
    LET char == current_char(inp, p)
    IN  IF char = None THEN ParseError(<<"Unterminated string">>, p + 1)
        ELSE IF char = "\""
        THEN [kind |-> "end", value |-> 0, position |-> p + 1, message |-> <<>>]
        ELSE IF char = "\\" THEN parse_escape_sequence(inp, p + 1)
        ELSE Ok(Ord(char), p + 1)

RECURSIVE parse_string_loop(_, _, _)
\* The while loop of _parse_string; result is what has been decoded.
parse_string_loop(inp, p, result) ==
    LET step == string_step(inp, p)
    IN  IF step.kind = "ok"
        THEN parse_string_loop(inp, step.position, Append(result, step.value))
        ELSE IF step.kind = "end" THEN Ok(result, step.position)
        ELSE step

\* _parse_string, entered with the cursor on the opening quote.
parse_string(inp, p) == parse_string_loop(inp, p + 1, <<>>)

IsDigitAt(inp, p) == current_char(inp, p) # None /\ isdigit(current_char(inp, p))

RECURSIVE digits_end(_, _)
\* while current_char and current_char.isdigit(): advance()
digits_end(inp, p) == IF IsDigitAt(inp, p) THEN digits_end(inp, p + 1) ELSE p

\* The integer part, lines 167-171 (a numeral that has one): a single 0, or
\* every digit that follows.
int_part_greedy(inp, p1) == digits_end(inp, p1)

int_part_end(inp, p1) ==
    IF current_char(inp, p1) = "0" THEN p1 + 1 ELSE digits_end(inp, p1)

\* Line 208 with the float's value deciding the type.
number_value_by_value(is_float, num_value, p) ==
    LET f == py_float(num_value, p)
    IN  IF ~is_float THEN py_int(num_value, p)
        ELSE IF f.kind = "ok" /\ f.value.e = 0 THEN Ok(IntVal(f.value.n), p)
        ELSE f

\* Line 208: float(num_value) if is_float else int(num_value).
number_value(is_float, num_value, p) ==
    IF is_float THEN py_float(num_value, p) ELSE py_int(num_value, p)

\* _parse_number, entered with the cursor on the first character of the numeral.
parse_number(inp, p0) ==
    LET p1       == IF current_char(inp, p0) = "-" THEN p0 + 1 ELSE p0
        p2       == int_part_end(inp, p1)
        hasFrac  == current_char(inp, p2) = "."
        p3       == IF hasFrac THEN digits_end(inp, p2 + 1) ELSE p2
        hasExp   == current_char(inp, p3) \in {"e", "E"}
        p4       == IF hasExp
                    THEN IF current_char(inp, p3 + 1) \in {"+", "-"}
                         THEN p3 + 2 ELSE p3 + 1
                    ELSE p3
        p5       == IF hasExp THEN digits_end(inp, p4) ELSE p3
        is_float == hasFrac \/ hasExp
    IN  IF ~IsDigitAt(inp, p1) THEN ParseError(<<"Expected digit">>, p1)
        ELSE IF hasFrac /\ ~IsDigitAt(inp, p2 + 1)
        THEN ParseError(<<"Expected digit after decimal point">>, p2 + 1)
        ELSE IF hasExp /\ ~IsDigitAt(inp, p4)
        THEN ParseError(<<"Expected digit in exponent">>, p4)
        ELSE number_value(is_float, SubSeq(inp, p0 + 1, p5), p5)

(***************************************************************************)
(* dict: the <<key, value>> pairs in insertion order.  obj[key] = value    *)
(* replaces the value of a key already present, where it stands, and       *)
(* appends a new key.                                                      *)
(***************************************************************************)
HasKey(items, key) == \E i \in 1..Len(items) : items[i][1] = key

\* A dict that keeps the first value of a key.
dict_set_keep_first(items, key, value) ==
    IF HasKey(items, key) THEN items ELSE Append(items, <<key, value>>)

\* A dict that moves a key stored again to the end.
dict_set_move_to_end(items, key, value) ==
    Append(SelectSeq(items, LAMBDA kv : kv[1] # key), <<key, value>>)

dict_set(items, key, value) ==
    IF HasKey(items, key)
    THEN [i \in 1..Len(items) |->
            IF items[i][1] = key THEN <<key, value>> ELSE items[i]]
    ELSE Append(items, <<key, value>>)

(***************************************************************************)
(* The parser as a state machine.  The calls of _parse_array and           *)
(* _parse_object that are active are the frames of stack (innermost last); *)
(* pc is where the innermost call stands:                                  *)
(*   "parse"   parse() has not started                                     *)
(*   "value"   _parse_value is being called                                *)
(*   "key"     _parse_object is at the top of its loop                     *)
(*   "return"  a value (ret) has just been returned to the caller          *)
(*   "done"    parse() returned outcome.value                              *)
(*   "raised"  an exception left parse()                                   *)
(***************************************************************************)
Frame(kind, items, key) == [kind |-> kind, items |-> items, key |-> key]

MaxSize == 3

\* Optional[Node] = None
Nil == 0

Values == {"a", "b"}

\* A cell that holds no object.
FreeNode == [value |-> None, next |-> Nil]

Cells == 1..MaxSize

\* LinkedList(): an empty list.
ListNew ==
    /\ head = Nil
    /\ tail = Nil
    /\ size = 0
    /\ nodes = [i \in Cells |-> FreeNode]
    /\ retval = None
    /\ elements = <<>>

\* TaskStore(file_path) on a path where no file exists.
StoreNew ==
    /\ path = None
    /\ tasks = <<>>
    /\ loaded = <<>>
    /\ calls = <<>>

\* A call of the parser touches neither the list nor the store.
ParserOnly == UNCHANGED <<listvars, storevars>>

Top == stack[Len(stack)]

\* A return that leaves the caller's invocation as well.
Pop_two == SubSeq(stack, 1, Len(stack) - 2)

Pop == SubSeq(stack, 1, Len(stack) - 1)

\* The position an outcome has that is no ParseError: only ParseError has the
\* attribute.  It is an integer that is no index, so that every outcome has
\* the same shape.
NoPosition == -1

NoOutcome ==
    [kind |-> "none", value |-> NoValue, message |-> <<>>, position |-> NoPosition]

\* A called procedure returned r.value with the cursor at r.position.
Return(r) ==
    /\ ret' = r.value
    /\ position' = r.position
    /\ pc' = "return"
    /\ UNCHANGED <<input, stack, outcome>>

\* An exception propagates unchanged out of parse(): every active call is
\* left.  Only a ParseError carries a position.
Raise(r) ==
    /\ pc' = "raised"
    /\ outcome' = [kind |-> r.kind, value |-> NoValue, message |-> r.message,
                   position |-> IF r.kind = "ParseError" THEN r.position ELSE NoPosition]
    /\ position' = r.position
    /\ stack' = <<>>
    /\ ret' = NoValue
    /\ UNCHANGED input

Finish(r) == IF r.kind = "ok" THEN Return(r) ELSE Raise(r)

\* The lookahead _parse_value dispatches on, after its skip_whitespace.
Lookahead == current_char(input, skip_whitespace(input, position))

LookaheadPos == skip_whitespace(input, position)

\* parse(), lines 65-66: skip whitespace and call _parse_value.
Parse ==
    /\ pc = "parse"
    /\ ParserOnly
    /\ position' = skip_whitespace(input, position)
    /\ pc' = "value"
    /\ UNCHANGED <<input, stack, ret, outcome>>

ParseValueEnd ==
    /\ pc = "value"
    /\ ParserOnly
    /\ Lookahead = None
    /\ Raise(ParseError(<<"Unexpected end of input">>, LookaheadPos))

ParseNull ==
    /\ pc = "value"
    /\ ParserOnly
    /\ Lookahead = "n"
    /\ Finish(parse_null(input, LookaheadPos))

ParseBool ==
    /\ pc = "value"
    /\ ParserOnly
    /\ Lookahead \in {"t", "f"}
    /\ Finish(parse_bool(input, LookaheadPos))

ParseString ==
    /\ pc = "value"
    /\ ParserOnly
    /\ Lookahead = "\""
    /\ LET r == parse_string(input, LookaheadPos)
       IN  Finish(IF r.kind = "ok" THEN Ok(StrVal(r.value), r.position) ELSE r)

\* The test of line 92: char == "-" or char.isdigit().
StartsNumber(char) == char = "-" \/ isdigit(char)

ParseNumber ==
    /\ pc = "value"
    /\ ParserOnly
    /\ Lookahead \notin {None, "n", "t", "f", "\"", "[", "{"}
    /\ StartsNumber(Lookahead)
    /\ Finish(parse_number(input, LookaheadPos))

\* _parse_array up to its loop: consume [, skip whitespace, and either
\* return the empty array or enter the loop, whose first step calls
\* _parse_value.
ParseArray ==
    /\ pc = "value"
    /\ ParserOnly
    /\ Lookahead = "["
    /\ LET p == skip_whitespace(input, LookaheadPos + 1)
       IN  IF current_char(input, p) = "]"
           THEN Return(Ok(ArrVal(<<>>), p + 1))
           ELSE /\ stack' = Append(stack, Frame("array", <<>>, <<>>))
                /\ position' = p
                /\ pc' = "value"
                /\ UNCHANGED <<input, ret, outcome>>

\* _parse_object up to its loop.
ParseObject ==
    /\ pc = "value"
    /\ ParserOnly
    /\ Lookahead = "{"
    /\ LET p == skip_whitespace(input, LookaheadPos + 1)
       IN  IF current_char(input, p) = "}"
           THEN Return(Ok(ObjVal(<<>>), p + 1))
           ELSE /\ stack' = Append(stack, Frame("object", <<>>, <<>>))
                /\ position' = p
                /\ pc' = "key"
                /\ UNCHANGED <<input, ret, outcome>>

ParseValueUnexpected ==
    /\ pc = "value"
    /\ ParserOnly
    /\ Lookahead \notin {None, "n", "t", "f", "\"", "[", "{"}
    /\ ~StartsNumber(Lookahead)
    /\ Raise(ParseError(<<"Unexpected character: '", Lookahead, "'">>, LookaheadPos))

\* _parse_object, lines 249-260: the key, the colon, and the call of
\* _parse_value for the member's value.
ObjectKey ==
    /\ pc = "key"
    /\ ParserOnly
    /\ LET p == skip_whitespace(input, position)
           k == parse_string(input, p)
           c == expect(input, skip_whitespace(input, k.position), ":")
       IN  IF current_char(input, p) # "\""
           THEN Raise(ParseError(<<"Expected string key">>, p))
           ELSE IF k.kind # "ok" THEN Raise(k)
           ELSE IF c.kind # "ok" THEN Raise(c)
           ELSE /\ stack' = [stack EXCEPT ![Len(stack)].key = k.value]
                /\ position' = c.position
                /\ pc' = "value"
                /\ UNCHANGED <<input, ret, outcome>>

\* _parse_array that leaves the comma unread.
ArrayElement_stuck ==
    /\ pc = "return"
    /\ ParserOnly
    /\ stack # <<>>
    /\ Top.kind = "array"
    /\ LET arr  == Append(Top.items, ret)
           p    == skip_whitespace(input, position)
           char == current_char(input, p)
       IN  IF char = ","
           THEN /\ stack' = [stack EXCEPT ![Len(stack)].items = arr]
                /\ position' = p
                /\ pc' = "value"
                /\ UNCHANGED <<input, ret, outcome>>
           ELSE IF char = "]"
           THEN /\ stack' = Pop
                /\ ret' = ArrVal(arr)
                /\ position' = p + 1
                /\ pc' = "return"
                /\ UNCHANGED <<input, outcome>>
           ELSE Raise(ParseError(<<"Expected ',' or ']'">>, p))

\* _parse_array with arr.insert(0, ...) for arr.append(...).
ArrayElement_prepend ==
    /\ pc = "return"
    /\ ParserOnly
    /\ stack # <<>>
    /\ Top.kind = "array"
    /\ LET arr  == <<ret>> \o Top.items
           p    == skip_whitespace(input, position)
           char == current_char(input, p)
       IN  IF char = ","
           THEN /\ stack' = [stack EXCEPT ![Len(stack)].items = arr]
                /\ position' = skip_whitespace(input, p + 1)
                /\ pc' = "value"
                /\ UNCHANGED <<input, ret, outcome>>
           ELSE IF char = "]"
           THEN /\ stack' = Pop
                /\ ret' = ArrVal(arr)
                /\ position' = p + 1
                /\ pc' = "return"
                /\ UNCHANGED <<input, outcome>>
           ELSE Raise(ParseError(<<"Expected ',' or ']'">>, p))

\* _parse_array, lines 222-233: append the element returned, then , or ].
ArrayElement ==
    /\ pc = "return"
    /\ ParserOnly
    /\ stack # <<>>
    /\ Top.kind = "array"
    /\ LET arr  == Append(Top.items, ret)
           p    == skip_whitespace(input, position)
           char == current_char(input, p)
       IN  IF char = ","
           THEN /\ stack' = [stack EXCEPT ![Len(stack)].items = arr]
                /\ position' = skip_whitespace(input, p + 1)
                /\ pc' = "value"
                /\ UNCHANGED <<input, ret, outcome>>
           ELSE IF char = "]"
           THEN /\ stack' = Pop
                /\ ret' = ArrVal(arr)
                /\ position' = p + 1
                /\ pc' = "return"
                /\ UNCHANGED <<input, outcome>>
           ELSE Raise(ParseError(<<"Expected ',' or ']'">>, p))

\* _parse_object that lets a } close the object right after a comma.
ObjectMember_trailing_comma ==
    /\ pc = "return"
    /\ ParserOnly
    /\ stack # <<>>
    /\ Top.kind = "object"
    /\ LET obj  == dict_set(Top.items, Top.key, ret)
           p    == skip_whitespace(input, position)
           char == current_char(input, p)
           q    == skip_whitespace(input, p + 1)
       IN  IF char = "," /\ current_char(input, q) # "}"
           THEN /\ stack' = [stack EXCEPT ![Len(stack)].items = obj]
                /\ position' = p + 1
                /\ pc' = "key"
                /\ UNCHANGED <<input, ret, outcome>>
           ELSE IF char \in {",", "}"}
           THEN /\ stack' = Pop
                /\ ret' = ObjVal(obj)
                /\ position' = IF char = "," THEN q + 1 ELSE p + 1
                /\ pc' = "return"
                /\ UNCHANGED <<input, outcome>>
           ELSE Raise(ParseError(<<"Expected ',' or '}'">>, p))

\* _parse_object, lines 260-272: store the member, then , or }.
ObjectMember ==
    /\ pc = "return"
    /\ ParserOnly
    /\ stack # <<>>
    /\ Top.kind = "object"
    /\ LET obj  == dict_set(Top.items, Top.key, ret)
           p    == skip_whitespace(input, position)
           char == current_char(input, p)
       IN  IF char = ","
           THEN /\ stack' = [stack EXCEPT ![Len(stack)].items = obj]
                /\ position' = p + 1
                /\ pc' = "key"
                /\ UNCHANGED <<input, ret, outcome>>
           ELSE IF char = "}"
           THEN /\ stack' = Pop
                /\ ret' = ObjVal(obj)
                /\ position' = p + 1
                /\ pc' = "return"
                /\ UNCHANGED <<input, outcome>>
           ELSE Raise(ParseError(<<"Expected ',' or '}'">>, p))

\* parse(), lines 67-74: skip whitespace, then the end of input or the
\* trailing-characters error.
ParseFinish ==
    /\ pc = "return"
    /\ ParserOnly
    /\ stack = <<>>
    /\ LET p == skip_whitespace(input, position)
       IN  IF ~eof(input, p)
           THEN Raise(ParseError(<<"Unexpected characters after JSON value">>, p))
           ELSE /\ outcome' = [kind |-> "value", value |-> ret,
                               message |-> <<>>, position |-> NoPosition]
                /\ position' = p
                /\ pc' = "done"
                /\ UNCHANGED <<input, stack, ret>>

(***************************************************************************)
(* parse_json as a function of the input: the same procedures, each call   *)
(* an operator that returns the procedure's result.  The cursor is passed  *)
(* from one step of a procedure to the next.                               *)
(***************************************************************************)
RECURSIVE parse_value(_, _)

RECURSIVE array_loop(_, _, _)

\* _parse_array, lines 226-233: after an element and whitespace, , or ].
array_separator(inp, arr, p) ==
    IF current_char(inp, p) = ","
    THEN array_loop(inp, skip_whitespace(inp, p + 1), arr)
    ELSE IF current_char(inp, p) = "]" THEN Ok(ArrVal(arr), p + 1)
    ELSE ParseError(<<"Expected ',' or ']'">>, p)

\* Lines 222-223: arr.append(v), skip whitespace.
array_element(inp, arr, v) ==
    IF v.kind # "ok" THEN v
    ELSE array_separator(inp, Append(arr, v.value), skip_whitespace(inp, v.position))

array_loop(inp, p, arr) == array_element(inp, arr, parse_value(inp, p))

\* Lines 216-219, with the cursor after [ and whitespace.
array_open(inp, q) ==
    IF current_char(inp, q) = "]" THEN Ok(ArrVal(<<>>), q + 1)
    ELSE array_loop(inp, q, <<>>)

\* _parse_array, entered with the cursor on the [.
parse_array(inp, p) == array_open(inp, skip_whitespace(inp, p + 1))

RECURSIVE object_loop(_, _, _)

\* _parse_object, lines 265-272: after a member and whitespace, , or }.
object_separator(inp, obj, p) ==
    IF current_char(inp, p) = "," THEN object_loop(inp, p + 1, obj)
    ELSE IF current_char(inp, p) = "}" THEN Ok(ObjVal(obj), p + 1)
    ELSE ParseError(<<"Expected ',' or '}'">>, p)

\* Lines 261-263: obj[key] = value, skip whitespace.
object_value(inp, obj, key, v) ==
    IF v.kind # "ok" THEN v
    ELSE object_separator(inp, dict_set(obj, key, v.value),
                          skip_whitespace(inp, v.position))

\* Line 260: the member's value, after the colon.
object_colon(inp, obj, key, c) ==
    IF c.kind # "ok" THEN c
    ELSE object_value(inp, obj, key, parse_value(inp, c.position))

\* Lines 256-257 without the skip_whitespace before the colon.
object_key_no_skip(inp, obj, k) ==
    IF k.kind # "ok" THEN k
    ELSE object_colon(inp, obj, k.value, expect(inp, k.position, ":"))

\* Lines 256-257: skip whitespace, expect(":").
object_key(inp, obj, k) ==
    IF k.kind # "ok" THEN k
    ELSE object_colon(inp, obj, k.value,
                      expect(inp, skip_whitespace(inp, k.position), ":"))

\* Lines 252-254, with the cursor after whitespace: the key.
object_member(inp, obj, q) ==
    IF current_char(inp, q) # "\"" THEN ParseError(<<"Expected string key">>, q)
    ELSE object_key(inp, obj, parse_string(inp, q))

object_loop(inp, p, obj) == object_member(inp, obj, skip_whitespace(inp, p))

\* Lines 243-246, with the cursor after { and whitespace.
object_open(inp, q) ==
    IF current_char(inp, q) = "}" THEN Ok(ObjVal(<<>>), q + 1)
    ELSE object_loop(inp, q, <<>>)

\* _parse_object, entered with the cursor on the {.
parse_object(inp, p) == object_open(inp, skip_whitespace(inp, p + 1))

\* The str that _parse_string returns, as a value.
string_value(r) == IF r.kind = "ok" THEN Ok(StrVal(r.value), r.position) ELSE r

\* _parse_value, lines 80-95: the dispatch on the character at p.
value_at(inp, p, char) ==
    IF char = None THEN ParseError(<<"Unexpected end of input">>, p)
    ELSE IF char = "n" THEN parse_null(inp, p)
    ELSE IF char \in {"t", "f"} THEN parse_bool(inp, p)
    ELSE IF char = "\"" THEN string_value(parse_string(inp, p))
    ELSE IF char = "[" THEN parse_array(inp, p)
    ELSE IF char = "{" THEN parse_object(inp, p)
    ELSE IF StartsNumber(char) THEN parse_number(inp, p)
    ELSE ParseError(<<"Unexpected character: '", char, "'">>, p)

parse_value(inp, p0) ==
    value_at(inp, skip_whitespace(inp, p0),
             current_char(inp, skip_whitespace(inp, p0)))

\* parse(), lines 69-74, with the cursor after the value and whitespace.
parse_end(inp, value, p) ==
    IF ~eof(inp, p) THEN ParseError(<<"Unexpected characters after JSON value">>, p)
    ELSE Ok(value, p)

\* parse(), lines 66-67.
parse_top(inp, v) ==
    IF v.kind # "ok" THEN v
    ELSE parse_end(inp, v.value, skip_whitespace(inp, v.position))

\* JSONParser(input_str).parse()
parse(inp) == parse_top(inp, parse_value(inp, skip_whitespace(inp, 0)))

(***************************************************************************)
(* Inputs.  parse_json is called on one input; the inputs checked are the  *)
(* strings of run_tests and of the demo, the specification's examples, and *)
(* every string of seven bounded families.                                 *)
(***************************************************************************)
MaxLen       == 3
MaxNumLen    == 4
MaxStrLen    == 3
MaxHexLen    == 4
MaxTokens    == 4
MaxMembers   == 3

\* Every sequence over alphabet of length at most n.
StringsUpTo(alphabet, n) == UNION {[1..k -> alphabet] : k \in 0..n}

RECURSIVE Flatten(_)
Flatten(ss) == IF ss = <<>> THEN <<>> ELSE ss[1] \o Flatten(Tail(ss))

\* Arbitrary short strings.
GenAlphabet ==
    {" ", "n", "t", "f", "\"", "[", "]", "{", "}", ",", ":", "-", "1", "x", "sup2"}

GenInputs == StringsUpTo(GenAlphabet, MaxLen)

\* Numerals, well formed or not.
NumAlphabet == {"-", "0", "1", ".", "e", "E", "+", "sup2", "arab3", "x"}

NumInputs == StringsUpTo(NumAlphabet, MaxNumLen)

\* String literals: an opening quote and a body, terminated or not.
StrAlphabet == {"a", "\"", "\\", "n", "/", "u", "x", "\n"}

StrInputs == {<<"\"">> \o body : body \in StringsUpTo(StrAlphabet, MaxStrLen)}

\* \u escapes: what follows the u, with and without the closing quote.
HexAlphabet == {"0", "4", "a", "F", "g", "x", "_", "-", " ", "\""}

HexInputs ==
    {<<"\"", "\\", "u">> \o h : h \in StringsUpTo(HexAlphabet, MaxHexLen)}
    \cup {<<"\"", "\\", "u">> \o h \o <<"\"">> : h \in [1..4 -> HexAlphabet]}

\* The keywords, cut short, with one character replaced, or followed by more.
Keywords == {<<"n", "u", "l", "l">>, <<"t", "r", "u", "e">>, <<"f", "a", "l", "s", "e">>}

KeywordAlphabet == {"n", "u", "l", "t", "r", "e", "f", "a", "s", "x", " ", "]"}

KeywordInputs ==
    UNION {
        {SubSeq(kw, 1, k) : k \in 1..Len(kw)}
        \cup {[kw EXCEPT ![i] = c] : i \in 2..Len(kw), c \in KeywordAlphabet}
        \cup {kw \o <<c>> : c \in KeywordAlphabet}
        \cup {<<" ">> \o SubSeq(kw, 1, k) : k \in 1..Len(kw)}
        \cup {<<"[">> \o SubSeq(kw, 1, k) : k \in 1..Len(kw)}
      : kw \in Keywords}

\* Documents made of whole tokens.
Tokens ==
    {<<"[">>, <<"]">>, <<"{">>, <<"}">>, <<",">>, <<":">>, <<" ">>,
     <<"0">>, <<"1">>, <<"\"", "k", "\"">>}

TokenInputs == {Flatten(ts) : ts \in StringsUpTo(Tokens, MaxTokens)}

\* Objects of members "a" or "b" : 1 or 2, keys repeated or not.
Members ==
    {<<",", "\"", k, "\"", ":", v>> : k \in {"a", "b"}, v \in {"1", "2"}}

ObjInputs ==
    {<<"{">> \o Tail(Flatten(ms)) \o <<"}">> :
        ms \in UNION {[1..k -> Members] : k \in 1..MaxMembers}}

\* run_tests (lines 308-353) and the demo's examples (lines 283-292).
TestInputs ==
    { <<"n", "u", "l", "l">>, <<"t", "r", "u", "e">>, <<"f", "a", "l", "s", "e">>,
      <<"4", "2">>, <<"-", "1", "7">>, <<"3", ".", "1", "4">>,
      <<"1", "e", "1", "0">>,
      <<"\"", "h", "e", "l", "l", "o", "\"">>,
      <<"\"", "h", "e", "l", "l", "o", "\\", "n", "w", "o", "r", "l", "d", "\"">>,
      <<"[", "]">>,
      <<"[", "1", ",", " ", "2", ",", " ", "3", "]">>,
      <<"[", "t", "r", "u", "e", ",", " ", "n", "u", "l", "l", "]">>,
      <<"{", "}">>,
      <<"{", "\"", "n", "a", "m", "e", "\"", ":", " ",
        "\"", "P", "y", "t", "h", "o", "n", "\"", "}">>,
      <<"{", "\"", "a", "r", "r", "\"", ":", " ", "[", "1", ",", " ",
        "{", "\"", "n", "e", "s", "t", "e", "d", "\"", ":", " ",
        "t", "r", "u", "e", "}", "]", "}">>,
      <<" ", " ", "{", " ", "\"", "k", "e", "y", "\"", " ", ":", " ",
        "\"", "v", "a", "l", "u", "e", "\"", " ", "}", " ", " ">>,
      <<>>, <<"{">>,
      <<"{", "\"", "n", "a", "m", "e", "\"", ":", " ",
        "\"", "P", "y", "t", "h", "o", "n", "\"", ",", " ",
        "\"", "v", "e", "r", "s", "i", "o", "n", "\"", ":", " ",
        "3", ".", "1", "2", "}">>,
      <<"{", "\"", "n", "e", "s", "t", "e", "d", "\"", ":", " ",
        "{", "\"", "a", "r", "r", "a", "y", "\"", ":", " ",
        "[", "1", ",", " ", "t", "r", "u", "e", ",", " ",
        "n", "u", "l", "l", "]", "}", "}">> }

\* The examples of the specification's testable properties, and inputs with
\* non-ASCII digits and a cut-off \u escape inside an array.
NamedInputs ==
    { <<"1", "2", "3", "a", "b", "c">>,
      <<"{", "\"", "a", "\"", ":", "1", ",", "\"", "a", "\"", ":", "2", "}">>,
      <<"{", "\"", "a", "\"", ":", "1", ",", "\"", "b", "\"", ":", "2", ",",
        "\"", "a", "\"", ":", "3", "}">>,
      <<"-", "2", ".", "5", "E", "-", "3">>,
      <<"[", "0", "1", "]">>, <<"1", "e", "2">>,
      <<"[", "\"", "\\", "u">>, <<"[", "1", "sup2">>, <<"arab3">>, <<"1", "arab3">>,
      <<"[", "1", ",", "]">>, <<"[", "1", ",", " ", "]">>,
      <<"{", "\"", "k", "\"", ":", "1", ",", "}">>,
      <<"{", "\"", "k", "\"", ":", "1", " ", ",", " ", "}">>,
      <<"{", "\"", "k", "e", "y", "\"", ":", "\"", "v", "a", "l", "u", "e", "\"", "}">> }

\* The input is a member of one of the families.
InInputs(inp) ==
    \/ inp \in GenInputs
    \/ inp \in NumInputs
    \/ inp \in StrInputs
    \/ inp \in HexInputs
    \/ inp \in KeywordInputs
    \/ inp \in TokenInputs
    \/ inp \in ObjInputs
    \/ inp \in TestInputs
    \/ inp \in NamedInputs

Init ==
    /\ InInputs(input)
    /\ position = 0
    /\ pc = "parse"
    /\ stack = <<>>
    /\ ret = NoValue
    /\ outcome = NoOutcome
    /\ ListNew
    /\ StoreNew

Next ==
    \/ Parse
    \/ ParseValueEnd
    \/ ParseNull
    \/ ParseBool
    \/ ParseString
    \/ ParseNumber
    \/ ParseArray
    \/ ParseObject
    \/ ParseValueUnexpected
    \/ ObjectKey
    \/ ArrayElement
    \/ ObjectMember
    \/ ParseFinish

Spec == Init /\ [][Next]_vars


(***************************************************************************)
(* Properties                                                              *)
(***************************************************************************)
Raised == pc = "raised"

Returned == pc = "done"

IsParseError == Raised /\ outcome.kind = "ParseError"

Message(msg) == IsParseError /\ outcome.message = msg

\* C1: whatever the input, parse_json returns a value or raises ParseError;
\* no other exception leaves the call.
C1_OnlyParseErrorEscapes == Raised => outcome.kind = "ParseError"

\* What the lookahead at the reported position must be for each message that
\* names no character: the character found where another was required.
OffendingLookahead(msg, c) ==
    CASE msg = <<"Unexpected end of input">> -> c = None
      [] msg \in {<<"Expected digit">>, <<"Expected digit after decimal point">>,
                  <<"Expected digit in exponent">>} -> c = None \/ ~isdigit(c)
      [] msg = <<"Expected ',' or ']'">> -> c \notin {",", "]"} /\ ~isspace(c)
      [] msg = <<"Expected ',' or '}'">> -> c \notin {",", "}"} /\ ~isspace(c)
      [] msg = <<"Expected string key">> -> c # "\"" /\ ~isspace(c)
      [] msg = <<"Unexpected characters after JSON value">> -> c # None /\ ~isspace(c)
      [] OTHER -> FALSE

\* The reported position is the index of the character that triggered the
\* error; a trigger that is the end of input is at index len(input).
PositionIsTrigger(msg, p) ==
    LET c == current_char(input, p)
    IN  /\ 0 <= p /\ p <= Len(input)
        /\ CASE msg = <<"Unterminated string">> -> p = Len(input)
             [] msg[1] = "Expected '" -> c = msg[4]
             [] msg[1] = "Invalid escape sequence: \\" ->
                    c = msg[2] /\ p >= 1 /\ input[p] = "\\"
             [] msg[1] = "Unexpected character: '" -> c = msg[2]
             [] OTHER -> OffendingLookahead(msg, c)

\* C2: every ParseError reports the zero-based index of the character that
\* triggered it: the mismatching character of a keyword, the character after
\* the backslash of an invalid escape, the end of input for an unterminated
\* string, the offending lookahead in every other case.
C2_PositionIsOffendingChar ==
    IsParseError => PositionIsTrigger(outcome.message, outcome.position)

\* C3: the position of every ParseError is an offset into the input,
\* 0 <= p <= len(input).
C3_PositionWithinInput ==
    IsParseError => (0 <= outcome.position /\ outcome.position <= Len(input))

AllWhitespace(text) == \A i \in 1..Len(text) : isspace(text[i])

\* The index of the first character at or after from that is not whitespace,
\* or len(inp); stated on the text alone.
FirstNonWsFrom(inp, from) ==
    IF from >= Len(inp) THEN from
    ELSE CHOOSE i \in from..Len(inp) :
            /\ AllWhitespace(SubSeq(inp, from + 1, i))
            /\ (i = Len(inp) \/ ~isspace(inp[i + 1]))

TrailingMessage == <<"Unexpected characters after JSON value">>

\* C4: once the top-level value is parsed, parse returns it iff only
\* whitespace follows; otherwise it fails with "Unexpected characters after
\* JSON value" at the first non-whitespace character after the value
\* ("123abc": position 3).
C4_TopLevelEnd ==
    [][ /\ (pc = "return" /\ stack = <<>>) =>
             LET p == FirstNonWsFrom(input, position)
             IN  IF p = Len(input)
                 THEN /\ pc' = "done"
                      /\ outcome'.kind = "value"
                      /\ outcome'.value = ret
                 ELSE /\ pc' = "raised"
                      /\ outcome'.kind = "ParseError"
                      /\ outcome'.message = TrailingMessage
                      /\ outcome'.position = p
                      /\ outcome'.value = NoValue
        /\ (input = <<"1", "2", "3", "a", "b", "c">> /\ pc' \in {"done", "raised"}) =>
             /\ outcome'.message = TrailingMessage
             /\ outcome'.position = 3
      ]_vars

C4_Witness ==
    /\ Message(TrailingMessage)
    /\ input = <<"1", " ", "x">>
    /\ outcome.position = 2

\* C5: _parse_value dispatches on the lookahead after whitespace: n, t/f,
\* the quote, [ and { to their parsers, - or an ASCII digit to the number
\* parser, the end of input to "Unexpected end of input" and every other
\* character to "Unexpected character: '<ch>'" at the lookahead's index.
C5_Dispatch ==
    [][ pc = "value" =>
          LET p == FirstNonWsFrom(input, position)
              c == current_char(input, p)
          IN  /\ c = None => ParseValueEnd
              /\ c = "n" => ParseNull
              /\ c \in {"t", "f"} => ParseBool
              /\ c = "\"" => ParseString
              /\ c = "[" => ParseArray
              /\ c = "{" => ParseObject
              /\ c \in {"-"} \cup AsciiDigits => ParseNumber
              /\ c \notin {None, "n", "t", "f", "\"", "[", "{", "-"} \cup AsciiDigits =>
                    /\ pc' = "raised"
                    /\ outcome'.kind = "ParseError"
                    /\ outcome'.message = <<"Unexpected character: '", c, "'">>
                    /\ outcome'.position = p
      ]_vars

\* C6: an input that is empty or all whitespace, that ends while an array or
\* object is open, or that has a non-whitespace character after the complete
\* top-level value, makes parse raise ParseError and return no value.
C6_ErrorCasesFail ==
    [][ /\ (pc = "value" /\ AllWhitespace(input)) =>
             (pc' = "raised" /\ outcome'.kind = "ParseError" /\ outcome'.value = NoValue)
        /\ (stack # <<>> /\ position >= Len(input)) =>
             (pc' = "raised" /\ outcome'.kind = "ParseError" /\ outcome'.value = NoValue)
        /\ (stack # <<>> /\ pc' = "raised" /\ position' >= Len(input)) =>
             (outcome'.kind = "ParseError" /\ outcome'.value = NoValue)
        /\ (pc = "return" /\ stack = <<>>
              /\ ~AllWhitespace(SubSeq(input, position + 1, Len(input)))) =>
             (pc' = "raised" /\ outcome'.kind = "ParseError" /\ outcome'.value = NoValue)
      ]_vars

\* The innermost call has consumed its opening bracket and nothing else.
JustOpened ==
    /\ stack # <<>>
    /\ Top.items = <<>>
    /\ \/ pc = "value" /\ Top.kind = "array"
       \/ pc = "key" /\ Top.kind = "object"

\* The last character of text that is not whitespace (text has one).
LastNonWs(text) ==
    text[CHOOSE i \in 1..Len(text) :
            ~isspace(text[i]) /\ AllWhitespace(SubSeq(text, i + 1, Len(text)))]

\* C7: when the input ends right after an opening { or [ (and optional
\* whitespace), the ParseError reports position len(input), never 0;
\* parse("{") reports position 1.
C7_OpenBracketAtEnd ==
    [][ /\ (JustOpened /\ AllWhitespace(SubSeq(input, position + 1, Len(input)))) =>
             /\ LastNonWs(input) \in {"[", "{"}
             /\ pc' = "raised"
             /\ outcome'.kind = "ParseError"
             /\ outcome'.position = Len(input)
             /\ outcome'.position # 0
        /\ (input = <<"{">> /\ pc' = "raised") => outcome'.position = 1
      ]_vars

C7_Witness ==
    /\ IsParseError
    /\ input = <<"[", "{", " ">>
    /\ outcome.position = 3

KeywordOf(c) ==
    IF c = "n" THEN <<"n", "u", "l", "l">>
    ELSE IF c = "t" THEN <<"t", "r", "u", "e">>
    ELSE <<"f", "a", "l", "s", "e">>

KeywordValue(c) ==
    IF c = "n" THEN NullVal ELSE IF c = "t" THEN BoolVal(TRUE) ELSE BoolVal(FALSE)

\* The places of keyword kw where the input, read from index p, differs (the
\* end of input differs from every character).
Mismatches(kw, inp, p) == {k \in 1..Len(kw) : current_char(inp, p + k - 1) # kw[k]}

Least(S) == CHOOSE k \in S : \A j \in S : k <= j

\* C8: null, true and false parse to the null value, True and False; a value
\* that starts with n, t or f and deviates from the keyword (or ends early)
\* fails with "Expected '<expected>' but got '<actual>'" for its first
\* mismatching character.
C8_Keywords ==
    [][ /\ (pc = "value" /\ Lookahead \in {"n", "t", "f"}) =>
             LET p  == FirstNonWsFrom(input, position)
                 kw == KeywordOf(input[p + 1])
                 mm == Mismatches(kw, input, p)
             IN  IF mm = {}
                 THEN /\ pc' = "return"
                      /\ ret' = KeywordValue(input[p + 1])
                      /\ position' = p + Len(kw)
                 ELSE /\ pc' = "raised"
                      /\ outcome'.kind = "ParseError"
                      /\ outcome'.message =
                            <<"Expected '", kw[Least(mm)], "' but got '",
                              current_char(input, p + Least(mm) - 1), "'">>
        /\ input \in Keywords =>
             /\ pc' # "raised"
             /\ pc' = "done" =>
                   (outcome'.kind = "value" /\ outcome'.value = KeywordValue(input[1]))
      ]_vars

C8_Witness ==
    /\ Message(<<"Expected '", "l", "' but got '", "None", "'">>)
    /\ input = <<"n", "u", "l">>

\* C9: a numeral parses to an Integer iff it has no ".", "e" or "E" and to a
\* Float iff it has; 1e2 and 1.0 are Floats, -17 and 0 the Integers -17, 0.
C9_LexicalClassification ==
    [][ /\ (pc = "value" /\ StartsNumber(Lookahead) /\ pc' = "return") =>
             LET start   == FirstNonWsFrom(input, position)
                 numeral == SubSeq(input, start + 1, position')
                 marked  == \E i \in 1..Len(numeral) : numeral[i] \in {".", "e", "E"}
             IN  /\ ret'.t \in {"int", "float"}
                 /\ ret'.t = "int" <=> ~marked
                 /\ ret'.t = "float" <=> marked
        /\ input \in {<<"1", "e", "2">>, <<"1", ".", "0">>, <<"-", "1", "7">>, <<"0">>} =>
             /\ pc' # "raised"
             /\ pc' = "done" =>
                   outcome'.value =
                      CASE input = <<"1", "e", "2">> -> FloatVal(1, 2)
                        [] input = <<"1", ".", "0">> -> FloatVal(1, 0)
                        [] input = <<"-", "1", "7">> -> IntVal(0 - 17)
                        [] input = <<"0">> -> IntVal(0)
      ]_vars

C9_Witness ==
    /\ Returned
    /\ input = <<"1", "e", "2">>
    /\ outcome.value = FloatVal(1, 2)

\* C10: an integer part that starts with 0 is that single 0: a digit that
\* follows it is left unconsumed, so "01" fails with "Unexpected characters
\* after JSON value" at 1 and "[01]" with "Expected ',' or ']'" at 2.
C10_LeadingZero ==
    [][ /\ (pc = "value" /\ StartsNumber(Lookahead)) =>
             LET start == FirstNonWsFrom(input, position)
                 zero  == IF input[start + 1] = "-" THEN start + 1 ELSE start
             IN  current_char(input, zero) = "0" =>
                   /\ pc' = "return" =>
                         \/ position' = zero + 1
                         \/ /\ position' > zero + 1
                            /\ current_char(input, zero + 1) \in {".", "e", "E"}
                   /\ IsDigitAt(input, zero + 1) =>
                         (pc' = "return" /\ position' = zero + 1 /\ ret' = IntVal(0))
        /\ (input = <<"0", "1">> /\ pc' \in {"done", "raised"}) =>
             /\ outcome'.kind = "ParseError"
             /\ outcome'.message = TrailingMessage
             /\ outcome'.position = 1
        /\ (input = <<"[", "0", "1", "]">> /\ pc' \in {"done", "raised"}) =>
             /\ outcome'.kind = "ParseError"
             /\ outcome'.message = <<"Expected ',' or ']'">>
             /\ outcome'.position = 2
      ]_vars

C10_Witness ==
    /\ Message(<<"Expected ',' or ']'">>)
    /\ input = <<"[", "0", "1", "]">>
    /\ outcome.position = 2

\* The numeral grammar read off the text, with the digits 0-9 only.
IsAsciiDigitAt(inp, p) == current_char(inp, p) \in AsciiDigits

RECURSIVE AsciiDigitsEnd(_, _)
AsciiDigitsEnd(inp, p) ==
    IF IsAsciiDigitAt(inp, p) THEN AsciiDigitsEnd(inp, p + 1) ELSE p

\* The index after the integer part that starts at p1 (a digit stands there).
IntPartEnd(inp, p1) ==
    IF current_char(inp, p1) = "0" THEN p1 + 1 ELSE AsciiDigitsEnd(inp, p1)

\* The index after the fraction, if one starts at p2.
FracEnd(inp, p2) ==
    IF current_char(inp, p2) = "." THEN AsciiDigitsEnd(inp, p2 + 1) ELSE p2

\* The index where the digits of the exponent that starts at p3 must begin.
ExpDigitsStart(inp, p3) ==
    IF current_char(inp, p3 + 1) \in {"+", "-"} THEN p3 + 2 ELSE p3 + 1

\* The step fails with the one-part message msg at index p.
FailsWith(msg, p) ==
    /\ pc' = "raised"
    /\ outcome'.kind = "ParseError"
    /\ outcome'.message = <<msg>>
    /\ outcome'.position = p

\* The three malformations of the numeral whose digits must start at p1.
MalformedNumeral(p1) ==
    IF ~IsAsciiDigitAt(input, p1)
    THEN FailsWith("Expected digit", p1)
    ELSE IF current_char(input, IntPartEnd(input, p1)) = "."
            /\ ~IsAsciiDigitAt(input, IntPartEnd(input, p1) + 1)
    THEN FailsWith("Expected digit after decimal point", IntPartEnd(input, p1) + 1)
    ELSE IF current_char(input, FracEnd(input, IntPartEnd(input, p1))) \in {"e", "E"}
            /\ ~IsAsciiDigitAt(input,
                   ExpDigitsStart(input, FracEnd(input, IntPartEnd(input, p1))))
    THEN FailsWith("Expected digit in exponent",
                   ExpDigitsStart(input, FracEnd(input, IntPartEnd(input, p1))))
    ELSE TRUE

\* C11: a numeral whose - is not followed by a digit fails with "Expected
\* digit", whose . is not followed by a digit with "Expected digit after
\* decimal point", whose e/E (and optional sign) is not followed by a digit
\* with "Expected digit in exponent", each at the index of the character (or
\* end of input) found in place of the digit.
C11_MalformedNumerals ==
    [][ pc = "value" =>
          LET start == FirstNonWsFrom(input, position)
          IN  /\ current_char(input, start) = "-" => MalformedNumeral(start + 1)
              /\ IsAsciiDigitAt(input, start) => MalformedNumeral(start)
      ]_vars

\* The hexadecimal digits of JSON, [0-9a-fA-F].
AsciiHex == AsciiDigits \cup {"a", "b", "c", "d", "e", "f", "A", "B", "C", "D", "E", "F"}

\* The characters that a \u at index i (the backslash) has after it, four at most.
HexAfter(inp, i) ==
    SubSeq(inp, i + 3, IF i + 6 <= Len(inp) THEN i + 6 ELSE Len(inp))

AllAsciiHex(s) == \A k \in 1..Len(s) : s[k] \in AsciiHex

RECURSIVE Unterminated(_, _)
\* Read off the text: the body of a string literal, from index i on, runs
\* into the end of input before an unescaped closing quote, through ordinary
\* characters, complete escapes and at most the start of an escape.
Unterminated(inp, i) ==
    LET c == current_char(inp, i)
        d == current_char(inp, i + 1)
    IN  IF c = None THEN TRUE
        ELSE IF c = "\"" THEN FALSE
        ELSE IF c # "\\" THEN Unterminated(inp, i + 1)
        ELSE IF d = None THEN TRUE
        ELSE IF d \in {"n", "t", "r", "\"", "\\", "/"} THEN Unterminated(inp, i + 2)
        ELSE IF d = "u" /\ AllAsciiHex(HexAfter(inp, i))
        THEN Len(HexAfter(inp, i)) < 4 \/ Unterminated(inp, i + 6)
        ELSE FALSE

\* C12: when the input ends before the unescaped closing quote of a string
\* literal (a value or an object key), after ordinary characters or after
\* the start of an escape sequence, parse fails with "Unterminated string".
C12_UnterminatedString ==
    [][ (/\ pc \in {"value", "key"}
         /\ current_char(input, FirstNonWsFrom(input, position)) = "\""
         /\ Unterminated(input, FirstNonWsFrom(input, position) + 1)) =>
           /\ pc' = "raised"
           /\ outcome'.kind = "ParseError"
           /\ outcome'.message = <<"Unterminated string">>
      ]_vars

\* The six simple escapes and the code points they stand for.
SimpleEscapes == {"n", "t", "r", "\"", "\\", "/"}

Unescaped(d) ==
    CASE d = "n" -> 10 [] d = "t" -> 9 [] d = "r" -> 13
      [] d = "\"" -> 34 [] d = "\\" -> 92 [] d = "/" -> 47

RECURSIVE PlainLiteral(_, _)
\* Read off the text: the body from index i on is made of ordinary
\* characters and simple escapes, and an unescaped quote closes it.
PlainLiteral(inp, i) ==
    LET c == current_char(inp, i)
    IN  IF c = None THEN FALSE
        ELSE IF c = "\"" THEN TRUE
        ELSE IF c # "\\" THEN PlainLiteral(inp, i + 1)
        ELSE current_char(inp, i + 1) \in SimpleEscapes /\ PlainLiteral(inp, i + 2)

RECURSIVE Decoded(_, _)
\* The code points of a plain literal's body from index i on, in source
\* order: one per escape, one per other character.
Decoded(inp, i) ==
    LET c == current_char(inp, i)
    IN  IF c = "\"" THEN <<>>
        ELSE IF c = "\\" THEN <<Unescaped(inp[i + 2])>> \o Decoded(inp, i + 2)
        ELSE <<Ord(c)>> \o Decoded(inp, i + 1)

RECURSIVE LiteralEnd(_, _)
\* The index after the closing quote of a plain literal's body.
LiteralEnd(inp, i) ==
    LET c == current_char(inp, i)
    IN  IF c = "\"" THEN i + 1
        ELSE IF c = "\\" THEN LiteralEnd(inp, i + 2)
        ELSE LiteralEnd(inp, i + 1)

RECURSIVE InvalidEscape(_, _)
\* The character of the first escape of the body from index i on, when
\* that escape is neither simple nor a \u and only ordinary characters and
\* simple escapes stand before it; None when there is no such escape.
InvalidEscape(inp, i) ==
    LET c == current_char(inp, i)
        d == current_char(inp, i + 1)
    IN  IF c \in {None, "\""} THEN None
        ELSE IF c # "\\" THEN InvalidEscape(inp, i + 1)
        ELSE IF d \in SimpleEscapes THEN InvalidEscape(inp, i + 2)
        ELSE IF d = "u" THEN None
        ELSE d

HelloWorld ==
    <<"\"", "h", "e", "l", "l", "o", "\\", "n", "w", "o", "r", "l", "d", "\"">>

\* C13: in a string, \n \t \r \" \\ \/ decode to newline, tab, carriage
\* return, quote, backslash and slash, one character per escape; a backslash
\* followed by another character that is not u fails with "Invalid escape
\* sequence: \<ch>"; every other character, control characters included, is
\* appended verbatim, so the decoded characters are in source order
\* ("hello\nworld" decodes to hello, newline, world).
C13_StringDecoding ==
    [][ /\ (/\ pc \in {"value", "key"}
            /\ current_char(input, FirstNonWsFrom(input, position)) = "\"") =>
              LET body == FirstNonWsFrom(input, position) + 1
              IN  /\ (pc = "value" /\ PlainLiteral(input, body)) =>
                        /\ pc' = "return"
                        /\ ret' = StrVal(Decoded(input, body))
                        /\ position' = LiteralEnd(input, body)
                  /\ (pc = "key" /\ PlainLiteral(input, body) /\ pc' = "value") =>
                        stack'[Len(stack')].key = Decoded(input, body)
                  /\ InvalidEscape(input, body) # None =>
                        /\ pc' = "raised"
                        /\ outcome'.kind = "ParseError"
                        /\ outcome'.message =
                              <<"Invalid escape sequence: \\", InvalidEscape(input, body)>>
        /\ (input = HelloWorld /\ pc' \in {"done", "raised"}) =>
              /\ outcome'.kind = "value"
              /\ outcome'.value =
                    StrVal(<<104, 101, 108, 108, 111, 10, 119, 111, 114, 108, 100>>)
      ]_vars

C13_Witness ==
    /\ Returned
    /\ input = HelloWorld
    /\ outcome.value.s[6] = 10
    /\ Len(outcome.value.s) = 11

\* A \u escape stands at index i with four hexadecimal digits after it.
WellFormedU(inp, i) ==
    /\ current_char(inp, i) = "\\"
    /\ current_char(inp, i + 1) = "u"
    /\ Len(HexAfter(inp, i)) = 4
    /\ AllAsciiHex(HexAfter(inp, i))

\* The code point that four hexadecimal digits encode.
CodePoint(h) ==
    4096 * HexVal(h[1]) + 256 * HexVal(h[2]) + 16 * HexVal(h[3]) + HexVal(h[4])

RECURSIVE MalformedU(_, _)
\* Read off the text: the body from index i on has, before its closing
\* quote, a \u that four hexadecimal digits do not follow.
MalformedU(inp, i) ==
    LET c == current_char(inp, i)
        d == current_char(inp, i + 1)
    IN  IF c \in {None, "\""} THEN FALSE
        ELSE IF c # "\\" THEN MalformedU(inp, i + 1)
        ELSE IF d \in SimpleEscapes THEN MalformedU(inp, i + 2)
        ELSE IF d = "u" THEN ~WellFormedU(inp, i) \/ MalformedU(inp, i + 6)
        ELSE FALSE

RECURSIVE ValidLiteral(_, _)
\* The body from index i on is made of ordinary characters, simple escapes
\* and well-formed \u escapes, and an unescaped quote closes it.
ValidLiteral(inp, i) ==
    LET c == current_char(inp, i)
    IN  IF c = None THEN FALSE
        ELSE IF c = "\"" THEN TRUE
        ELSE IF c # "\\" THEN ValidLiteral(inp, i + 1)
        ELSE IF current_char(inp, i + 1) \in SimpleEscapes THEN ValidLiteral(inp, i + 2)
        ELSE WellFormedU(inp, i) /\ ValidLiteral(inp, i + 6)

RECURSIVE DecodedLiteral(_, _)
\* The code points of a valid literal's body and the index after its
\* closing quote: each \u escape gives one code point and takes six
\* characters of the source.
DecodedLiteral(inp, i) ==
    LET c == current_char(inp, i)
        step == IF c # "\\" THEN <<Ord(c), 1>>
                ELSE IF inp[i + 2] = "u" THEN <<CodePoint(HexAfter(inp, i)), 6>>
                ELSE <<Unescaped(inp[i + 2]), 2>>
        rest == DecodedLiteral(inp, i + step[2])
    IN  IF c = "\"" THEN [s |-> <<>>, end |-> i + 1]
        ELSE [s |-> <<step[1]>> \o rest.s, end |-> rest.end]

\* C14: a \u escape is decoded only when exactly four hexadecimal digits
\* [0-9a-fA-F] follow it; it then gives the one character of that code
\* point and consumes those four characters, each escape on its own; four
\* characters with a space, a sign, an underscore or an x among them are
\* never accepted as a code point.
C14_UnicodeEscape ==
    [][ (/\ pc = "value"
         /\ current_char(input, FirstNonWsFrom(input, position)) = "\"") =>
           LET body == FirstNonWsFrom(input, position) + 1
           IN  /\ MalformedU(input, body) => pc' = "raised"
               /\ ValidLiteral(input, body) =>
                     /\ pc' = "return"
                     /\ ret' = StrVal(DecodedLiteral(input, body).s)
                     /\ position' = DecodedLiteral(input, body).end
      ]_vars

\* The number of indices of text that hold the character c.
Count(text, c) == Cardinality({i \in 1..Len(text) : text[i] = c})

\* An array of scalars that are not strings: one pair of brackets.
FlatArray(text) ==
    /\ Count(text, "[") = 1
    /\ Count(text, "{") = 0
    /\ Count(text, "\"") = 0

OneTwoThree == <<"[", "1", ",", " ", "2", ",", " ", "3", "]">>

\* C15: _parse_array returns the elements in source order, one entry per
\* element parsed: [ whitespace ] is the empty array; after each element
\* and optional whitespace, a comma continues with the next element, ]
\* finishes, and anything else, the end of input included, fails with
\* "Expected ',' or ']'" at that position.
C15_Array ==
    [][ /\ (/\ pc = "value"
            /\ current_char(input, FirstNonWsFrom(input, position)) = "[") =>
              LET q == FirstNonWsFrom(input, FirstNonWsFrom(input, position) + 1)
              IN  IF current_char(input, q) = "]"
                  THEN pc' = "return" /\ ret' = ArrVal(<<>>) /\ position' = q + 1
                  ELSE /\ pc' = "value"
                       /\ Len(stack') = Len(stack) + 1
                       /\ stack'[Len(stack')].items = <<>>
        /\ (pc = "return" /\ stack # <<>> /\ Top.kind = "array") =>
              LET q == FirstNonWsFrom(input, position)
                  c == current_char(input, q)
              IN  /\ c = "," =>
                        /\ pc' = "value"
                        /\ Len(stack') = Len(stack)
                        /\ stack'[Len(stack')].items = Append(Top.items, ret)
                  /\ c = "]" =>
                        /\ pc' = "return"
                        /\ stack' = Pop
                        /\ ret' = ArrVal(Append(Top.items, ret))
                        /\ position' = q + 1
                  /\ c \notin {",", "]"} => FailsWith("Expected ',' or ']'", q)
        /\ (pc' = "done" /\ FlatArray(input)) =>
              Len(outcome'.value.items) =
                 IF AllWhitespace(SubSeq(input, IndexIn(input, {"["}, 1) + 1,
                                         IndexIn(input, {"]"}, 1) - 1))
                 THEN 0 ELSE Count(input, ",") + 1
        /\ (input = OneTwoThree /\ pc' \in {"done", "raised"}) =>
              outcome'.value = ArrVal(<<IntVal(1), IntVal(2), IntVal(3)>>)
      ]_vars

C15_Witness ==
    /\ Returned
    /\ input = OneTwoThree
    /\ Len(outcome.value.items) = 3
    /\ outcome.value.items[3] = IntVal(3)

\* The consumed text ends, whitespace aside, with a comma.
AfterComma ==
    /\ ~AllWhitespace(SubSeq(input, 1, position))
    /\ LastNonWs(SubSeq(input, 1, position)) = ","

TrailingArray == <<"[", "1", ",", "]">>

TrailingObject == <<"{", "\"", "k", "\"", ":", "1", ",", "}">>

\* A comma of text that only whitespace separates from a ] or a }.
HasTrailingComma(text) ==
    \E i \in 1..Len(text) :
        /\ text[i] = ","
        /\ current_char(text, FirstNonWsFrom(text, i)) \in {"]", "}"}

\* C16: a trailing comma is never accepted: in an array, a comma followed
\* after whitespace by ] fails in the next _parse_value with "Unexpected
\* character: ']'" at the index of the ]; in an object, a comma followed by
\* } fails with "Expected string key" at the index of the }.
C16_TrailingComma ==
    [][ /\ (pc = "value" /\ AfterComma) =>
              LET q == FirstNonWsFrom(input, position)
              IN  current_char(input, q) = "]" =>
                    /\ pc' = "raised"
                    /\ outcome'.kind = "ParseError"
                    /\ outcome'.message = <<"Unexpected character: '", "]", "'">>
                    /\ outcome'.position = q
        /\ (pc = "key" /\ AfterComma) =>
              LET q == FirstNonWsFrom(input, position)
              IN  current_char(input, q) = "}" => FailsWith("Expected string key", q)
        /\ (pc' = "done" /\ Count(input, "\"") = 0) => ~HasTrailingComma(input)
        /\ (input = TrailingArray /\ pc' \in {"done", "raised"}) =>
              /\ outcome'.kind = "ParseError"
              /\ outcome'.message = <<"Unexpected character: '", "]", "'">>
              /\ outcome'.position = 3
        /\ (input = TrailingObject /\ pc' \in {"done", "raised"}) =>
              FailsWith("Expected string key", 7)
      ]_vars

C16_Witness ==
    /\ Message(<<"Expected string key">>)
    /\ input = TrailingObject
    /\ outcome.position = 7

\* The step that follows a key whose literal is plain and starts at index q.
AfterKey(q) ==
    LET r == FirstNonWsFrom(input, LiteralEnd(input, q + 1))
        actual == current_char(input, r)
    IN  IF actual = ":"
        THEN /\ pc' = "value"
             /\ position' = r + 1
             /\ Len(stack') = Len(stack)
             /\ stack'[Len(stack')].key = Decoded(input, q + 1)
        ELSE /\ pc' = "raised"
             /\ outcome'.kind = "ParseError"
             /\ outcome'.message = <<"Expected '", ":", "' but got '", actual, "'">>
             /\ outcome'.position = r
             /\ position' = r

\* C17: _parse_object follows the protocol key, colon, value, separator:
\* { whitespace } is the empty object; a member must start with a quote
\* (else "Expected string key"); after the key and optional whitespace comes
\* a colon (else "Expected ':' but got '<actual>'", the cursor not advanced);
\* then one value; then after optional whitespace a comma (next member) or
\* } (finish), else "Expected ',' or '}'".
C17_ObjectProtocol ==
    [][ /\ (/\ pc = "value"
            /\ current_char(input, FirstNonWsFrom(input, position)) = "{") =>
              LET q == FirstNonWsFrom(input, FirstNonWsFrom(input, position) + 1)
              IN  IF current_char(input, q) = "}"
                  THEN pc' = "return" /\ ret' = ObjVal(<<>>) /\ position' = q + 1
                  ELSE /\ pc' = "key"
                       /\ Len(stack') = Len(stack) + 1
                       /\ stack'[Len(stack')].kind = "object"
                       /\ stack'[Len(stack')].items = <<>>
        /\ pc = "key" =>
              LET q == FirstNonWsFrom(input, position)
              IN  /\ current_char(input, q) # "\"" => FailsWith("Expected string key", q)
                  /\ (current_char(input, q) = "\"" /\ PlainLiteral(input, q + 1)) =>
                        AfterKey(q)
        /\ (pc = "value" /\ stack # <<>> /\ Top.kind = "object") =>
              /\ input[position] = ":"
              /\ pc' \in {"return", "value", "key", "raised"}
        /\ (pc = "return" /\ stack # <<>> /\ Top.kind = "object") =>
              LET q == FirstNonWsFrom(input, position)
                  c == current_char(input, q)
              IN  /\ c = "," =>
                        /\ pc' = "key"
                        /\ position' = q + 1
                        /\ Len(stack') = Len(stack)
                        /\ Len(stack'[Len(stack')].items) >= 1
                  /\ c = "}" =>
                        /\ pc' = "return"
                        /\ stack' = Pop
                        /\ ret'.t = "object"
                        /\ Len(ret'.items) >= 1
                        /\ position' = q + 1
                  /\ c \notin {",", "}"} => FailsWith("Expected ',' or '}'", q)
      ]_vars

C17_Witness ==
    /\ Message(<<"Expected '", ":", "' but got '", "1", "'">>)
    /\ input = <<"{", "\"", "k", "\"", "1">>
    /\ outcome.position = 4
    /\ position = 4

UniqueKeys(items) ==
    \A i, j \in 1..Len(items) : items[i][1] = items[j][1] => i = j

\* The dict that the step taken leaves: the open object's, or the one returned.
StoredItems == IF pc' = "key" THEN stack'[Len(stack')].items ELSE ret'.items

\* The indices of text where a member with key k starts (its opening quote,
\* zero-based); the text is an object of one-character keys and values.
MembersOf(text, k) ==
    {i \in 1..(Len(text) - 4) :
        /\ text[i] \in {"{", ","}
        /\ SubSeq(text, i + 1, i + 4) = <<"\"", k, "\"", ":">>}

Greatest(S) == CHOOSE k \in S : \A j \in S : k >= j

\* The values that items holds for the key of the one character k.
ValuesOf(items, k) == {items[i][2] : i \in {j \in 1..Len(items) : items[j][1] = <<Ord(k)>>}}

DuplicateA == <<"{", "\"", "a", "\"", ":", "1", ",", "\"", "a", "\"", ":", "2", "}">>

\* C18: the keys of a parsed object are unique: a key that occurs several
\* times in the literal has one entry, whose value is the one of its last
\* occurrence, the earlier values being discarded; {"a":1,"a":2} gives the
\* one key a with the Integer 2.
C18_LastKeyWins ==
    [][ /\ (/\ pc = "return" /\ stack # <<>> /\ Top.kind = "object"
            /\ pc' \in {"key", "return"}) =>
              /\ UniqueKeys(StoredItems)
              /\ \E i \in 1..Len(StoredItems) : StoredItems[i] = <<Top.key, ret>>
              /\ \A i \in 1..Len(Top.items) :
                    Top.items[i][1] # Top.key =>
                       \E j \in 1..Len(StoredItems) : StoredItems[j] = Top.items[i]
              /\ Len(StoredItems) =
                    IF HasKey(Top.items, Top.key) THEN Len(Top.items)
                    ELSE Len(Top.items) + 1
        /\ (pc' = "done" /\ input \in ObjInputs) =>
              \A k \in {"a", "b"} :
                 /\ MembersOf(input, k) = {} => ValuesOf(outcome'.value.items, k) = {}
                 /\ MembersOf(input, k) # {} =>
                       /\ ValuesOf(outcome'.value.items, k) =
                             {IntVal(DigitVal(input[Greatest(MembersOf(input, k)) + 5]))}
                       /\ Cardinality({i \in 1..Len(outcome'.value.items) :
                              outcome'.value.items[i][1] = <<Ord(k)>>}) = 1
        /\ (input = DuplicateA /\ pc' \in {"done", "raised"}) =>
              outcome'.value = ObjVal(<< <<(<<97>>), IntVal(2)>> >>)
      ]_vars

C18_Witness ==
    /\ Returned
    /\ input = DuplicateA
    /\ Len(outcome.value.items) = 1
    /\ outcome.value.items[1][2] = IntVal(2)

ABA ==
    <<"{", "\"", "a", "\"", ":", "1", ",", "\"", "b", "\"", ":", "2", ",",
      "\"", "a", "\"", ":", "3", "}">>

\* C19: the keys of a parsed object iterate in the order of their first
\* occurrence in the source: a later duplicate overwrites the value and
\* does not move the key; {"a":1,"b":2,"a":3} iterates a then b, with a
\* mapped to 3.
C19_FirstOccurrenceOrder ==
    [][ /\ (/\ pc = "return" /\ stack # <<>> /\ Top.kind = "object"
            /\ pc' \in {"key", "return"}) =>
              /\ \A i \in 1..Len(Top.items) : StoredItems[i][1] = Top.items[i][1]
              /\ ~HasKey(Top.items, Top.key) =>
                    StoredItems[Len(StoredItems)][1] = Top.key
        /\ (pc' = "done" /\ input \in ObjInputs) =>
              \A i, j \in 1..Len(outcome'.value.items) :
                 i < j =>
                    \E k, l \in {"a", "b"} :
                       /\ outcome'.value.items[i][1] = <<Ord(k)>>
                       /\ outcome'.value.items[j][1] = <<Ord(l)>>
                       /\ Least(MembersOf(input, k)) < Least(MembersOf(input, l))
        /\ (input = ABA /\ pc' \in {"done", "raised"}) =>
              outcome'.value =
                 ObjVal(<< <<(<<97>>), IntVal(3)>>, <<(<<98>>), IntVal(2)>> >>)
      ]_vars

C19_Witness ==
    /\ Returned
    /\ input = ABA
    /\ outcome.value.items[1] = <<(<<97>>), IntVal(3)>>
    /\ outcome.value.items[2][1] = <<98>>

\* The state machine and the function give the same outcome.
ParseAgrees ==
    /\ Returned => parse(input) = Ok(outcome.value, position)
    /\ Raised =>
          /\ parse(input).kind = outcome.kind
          /\ parse(input).message = outcome.message
          /\ parse(input).position = position

\* The whitespace of JSON.
Whitespace == {" ", "\t", "\n", "\r"}

RECURSIVE StringMask(_, _, _)
\* For each character of text from the i-th on, whether it belongs to a
\* string literal (its quotes included); in tells whether a literal is open.
StringMask(text, i, in) ==
    IF i > Len(text) THEN <<>>
    ELSE IF ~in THEN <<text[i] = "\"">> \o StringMask(text, i + 1, text[i] = "\"")
    ELSE IF text[i] = "\\" THEN <<TRUE, TRUE>> \o StringMask(text, i + 2, TRUE)
    ELSE <<TRUE>> \o StringMask(text, i + 1, text[i] # "\"")

\* A character of a numeral or of a keyword.
Word(c) == c \notin {"[", "]", "{", "}", ",", ":", "\""} /\ ~isspace(c)

\* The offsets of text (accepted by parse) that lie between two tokens,
\* before the first or after the last: not inside a string, a numeral or a
\* keyword.
Boundaries(text) ==
    LET m == StringMask(text, 1, FALSE)
    IN  {i \in 0..Len(text) :
            \/ i = 0
            \/ i = Len(text)
            \/ /\ ~(m[i] /\ m[i + 1])
               /\ ~(Word(text[i]) /\ Word(text[i + 1]))}

InsertAt(text, i, w) == SubSeq(text, 1, i) \o <<w>> \o SubSeq(text, i + 1, Len(text))

RECURSIVE PadFrom(_, _, _, _)
\* text from offset i on, with w inserted at every offset of B.
PadFrom(text, B, i, w) ==
    IF i > Len(text) THEN <<>>
    ELSE (IF i \in B THEN <<w>> ELSE <<>>)
         \o (IF i < Len(text) THEN <<text[i + 1]>> ELSE <<>>)
         \o PadFrom(text, B, i + 1, w)

Pad(text, w) == PadFrom(text, Boundaries(text), 0, w)

\* text with whitespace inserted between tokens: one character at one
\* boundary, one at every boundary, and two at every boundary.
WsVariants(text) ==
    {InsertAt(text, i, w) : i \in Boundaries(text), w \in Whitespace}
    \cup {Pad(text, w) : w \in Whitespace}
    \cup {Pad(Pad(text, w), " ") : w \in Whitespace}

Compact ==
    <<"{", "\"", "k", "e", "y", "\"", ":", "\"", "v", "a", "l", "u", "e", "\"", "}">>

Spaced ==
    <<" ", " ", "{", " ", "\"", "k", "e", "y", "\"", " ", ":", " ",
      "\"", "v", "a", "l", "u", "e", "\"", " ", "}", " ", " ">>

\* C20: whitespace insensitivity: when parse accepts an input, it accepts
\* every input obtained from it by inserting space, tab, newline or carriage
\* return before the value, after it or between two tokens (not inside a
\* string, a numeral or a keyword), with a structurally equal value;
\* '  { "key" : "value" }  ' parses as '{"key":"value"}' does.
C20_WhitespaceInsensitive ==
    /\ Returned =>
          \A y \in WsVariants(input) :
             LET r == parse(y)
             IN  r.kind = "ok" /\ r.value = outcome.value
    /\ (input = Spaced /\ pc \in {"done", "raised"}) =>
          /\ Returned
          /\ parse(Compact) = Ok(outcome.value, Len(Compact))

C20_Witness ==
    /\ Returned
    /\ input = Compact
    /\ Pad(input, " ") =
          <<" ", "{", " ", "\"", "k", "e", "y", "\"", " ", ":", " ",
            "\"", "v", "a", "l", "u", "e", "\"", " ", "}", " ">>
    /\ Cardinality(WsVariants(input)) = 32

(***************************************************************************)
(* The Tokenizer called directly                                           *)
(*                                                                         *)
(* A Tokenizer is made on an input and its methods are called in any       *)
(* order.  pc names the method that ran last, outcome is what it returned  *)
(* or raised; stack and ret are not used.                                  *)
(***************************************************************************)
MaxPast   == 2
MaxOffset == 2

\* An IndexError raised by indexing a string; p is the cursor.
IndexError(p) ==
    [kind |-> "IndexError", value |-> NoValue, position |-> p, message |-> <<>>]

\* peek(offset): only the upper bound is tested, so a negative pos indexes
\* the string from its end, and one below -len raises IndexError.
peek(inp, p, offset) ==
    LET pos == p + offset
    IN  IF pos >= Len(inp) THEN Ok(None, p)
        ELSE IF pos >= 0 THEN Ok(inp[pos + 1], p)
        ELSE IF pos >= -Len(inp) THEN Ok(inp[Len(inp) + pos + 1], p)
        ELSE IndexError(p)

\* advance() that stops at the end of the input.
advance_clamped(inp, p) ==
    Ok(current_char(inp, p), IF p >= Len(inp) THEN p ELSE p + 1)

\* advance(): the character read and the cursor after it.
advance(inp, p) == Ok(current_char(inp, p), p + 1)

TokAlphabet == {"a", ",", " ", "nbsp"}

TokInputs == StringsUpTo(TokAlphabet, MaxLen)

Offsets == (-MaxOffset)..MaxOffset

\* Tokenizer(input_str)
TokInit ==
    /\ input \in TokInputs
    /\ position = 0
    /\ pc = "init"
    /\ stack = <<>>
    /\ ret = NoValue
    /\ outcome = NoOutcome
    /\ ListNew
    /\ StoreNew

\* A method ran: r is what it returned or raised and the cursor it left.
Called(r) ==
    /\ outcome' = r
    /\ position' = r.position
    /\ UNCHANGED <<input, stack, ret>>
    /\ ParserOnly

CurrentChar ==
    /\ pc' = "current_char"
    /\ Called(Ok(current_char(input, position), position))

Eof ==
    /\ pc' = "eof"
    /\ Called(Ok(eof(input, position), position))

Peek(offset) ==
    /\ pc' = "peek"
    /\ Called(peek(input, position, offset))

\* The cursor is an unbounded int; the model stops MaxPast beyond the end.
Advance ==
    /\ position < Len(input) + MaxPast
    /\ pc' = "advance"
    /\ Called(advance(input, position))

SkipWhitespace ==
    /\ pc' = "skip_whitespace"
    /\ Called(Ok(None, skip_whitespace(input, position)))

Expect(char) ==
    /\ pc' = "expect"
    /\ Called(expect(input, position, char))

TokNext ==
    \/ CurrentChar
    \/ Eof
    \/ \E offset \in Offsets : Peek(offset)
    \/ Advance
    \/ SkipWhitespace
    \/ \E char \in TokAlphabet : Expect(char)

TokSpec == TokInit /\ [][TokNext]_vars

(***************************************************************************)
(* Properties of the Tokenizer                                             *)
(***************************************************************************)
\* The character at index i of the input, counted from 0, or None outside
\* it; stated on the text alone.
CharAt(i) == IF 0 <= i /\ i < Len(input) THEN input[i + 1] ELSE None

\* C21: peek(offset) returns the character at index cursor+offset when that
\* index is within the input and None for every index outside it, at or past
\* the end or before the start, and never changes the cursor.
C21_Peek ==
    [][\A offset \in Offsets :
          Peek(offset) =>
             /\ outcome'.kind = "ok"
             /\ outcome'.value = CharAt(position + offset)
             /\ position' = position]_vars

\* C22: advance() returns what current() returned before the call and then
\* increases the cursor by exactly one, also at or past the end of the input,
\* where it returns None and the cursor keeps growing; current() is None
\* iff eof() iff cursor >= len(input).
C22_Advance ==
    [][/\ Advance =>
             /\ outcome'.kind = "ok"
             /\ outcome'.value = current_char(input, position)
             /\ outcome'.value = CharAt(position)
             /\ position' = position + 1
             /\ position >= Len(input) => outcome'.value = None
       /\ CurrentChar =>
             /\ outcome'.value = CharAt(position)
             /\ (outcome'.value = None) <=> (position >= Len(input))
             /\ (outcome'.value = None) <=> eof(input, position)
             /\ position' = position
       /\ Eof =>
             /\ outcome'.value <=> (position >= Len(input))
             /\ position' = position]_vars

\* advance() has been called with the cursor already past the end.
C22_Witness ==
    /\ pc = "advance"
    /\ Len(input) > 0
    /\ position = Len(input) + 2
    /\ outcome.value = None

\* What C23 says of a call of skip_whitespace() apart from where the cursor
\* may end: it moves forward over whitespace only and stops at the end of the
\* input or before a character that is not whitespace.
SkipsMaximalRun ==
    /\ outcome'.kind = "ok"
    /\ position' >= position
    /\ AllWhitespace(SubSeq(input, position + 1, position'))
    /\ position' >= Len(input) \/ ~isspace(CharAt(position'))

\* C23 as stated: skip_whitespace() advances over exactly the maximal run of
\* whitespace at the cursor, possibly empty, and the cursor never ends beyond
\* len(input).
C23_AsStated ==
    [][SkipWhitespace => SkipsMaximalRun /\ position' <= Len(input)]_vars

\* C23: skip_whitespace() advances over exactly the maximal run of whitespace
\* at the cursor, possibly empty, and never moves the cursor beyond
\* len(input): a cursor that advance() had already taken beyond the end is
\* left where it was.
C23_SkipWhitespace ==
    [][SkipWhitespace =>
          /\ SkipsMaximalRun
          /\ position' <= Len(input) \/ position' = position]_vars

\* skip_whitespace() has skipped a space and a no-break space and stopped
\* before a letter.
C23_Witness ==
    /\ pc = "skip_whitespace"
    /\ input = <<" ", "nbsp", "a">>
    /\ position = 2

\* C24: expect(ch) advances the cursor by exactly one and succeeds if
\* current() equals ch; otherwise, at the end of the input too, it fails with
\* ParseError "Expected '<ch>' but got '<actual>'" at the current position
\* and leaves the cursor unchanged.
C24_Expect ==
    [][\A char \in TokAlphabet :
          Expect(char) =>
             IF CharAt(position) = char
             THEN /\ outcome'.kind = "ok"
                  /\ position' = position + 1
             ELSE /\ outcome'.kind = "ParseError"
                  /\ outcome'.message =
                        <<"Expected '", char, "' but got '", CharAt(position), "'">>
                  /\ outcome'.position = position
                  /\ position' = position]_vars

\* expect(',') has failed at the end of the input 'a'.
C24_Witness ==
    /\ pc = "expect"
    /\ input = <<"a">>
    /\ position = 1
    /\ outcome.kind = "ParseError"
    /\ outcome.message = <<"Expected '", ",", "' but got '", None, "'">>
    /\ outcome.position = 1

(***************************************************************************)
(* Properties of a whole parse                                             *)
(***************************************************************************)
\* The inputs termination is checked on: the inputs of run_tests, the named
\* ones, the objects, and every short string of brackets, separators, quotes,
\* digits and spaces.
LiveAlphabet == {"[", "]", "{", "}", ",", ":", "\"", "1", " ", "\\", "-"}

LiveInputs ==
    StringsUpTo(LiveAlphabet, MaxLen) \cup ObjInputs \cup TestInputs \cup NamedInputs

LiveInit ==
    /\ input \in LiveInputs
    /\ position = 0
    /\ pc = "parse"
    /\ stack = <<>>
    /\ ret = NoValue
    /\ outcome = NoOutcome
    /\ ListNew
    /\ StoreNew

Running == pc \notin {"done", "raised"}

\* What every step of a parse changes: the cursor or the place in the code.
progress == <<position, pc>>

\* parse() is one synchronous call: once made it runs until it returns or
\* raises, so a step that can be taken is taken.  This is WF_vars(Next)
\* written out, []<>~ENABLED <<Next>>_vars \/ []<><<Next>>_vars, with the two
\* action formulas in the form they have in this model: a step is enabled
\* exactly while the call is running, and every step changes progress.
Scheduling == []<>~Running \/ []<><<Next>>_progress

FairSpec == LiveInit /\ [][Next]_vars /\ Scheduling

\* A step of the parse that ends neither the call nor in a raise and is more
\* than a skip_whitespace(): a keyword, a literal, a bracket, a colon or a
\* separator is read.
Consumes == pc # "parse" /\ pc' \notin {"raised", "done"}

\* C27: parse terminates on every input, with a value or a failure; the
\* cursor never decreases during a parse, and every iteration of the loops of
\* skip_whitespace, parse_string, parse_number, parse_array and parse_object
\* consumes at least one character.
C27_Terminates ==
    /\ <>(pc \in {"done", "raised"})
    /\ [][/\ position' >= position
          /\ Consumes => position' > position
          /\ pc = "value" /\ Lookahead = "\"" /\ pc' # "raised" =>
                position' - position >= Len(ret'.s) + 2
          /\ \A p \in 0..(Len(input) - 1) :
                /\ skip_whitespace(input, p) >= p
                /\ isspace(input[p + 1]) => skip_whitespace(input, p) > p
                /\ digits_end(input, p) >= p
                /\ isdigit(input[p + 1]) => digits_end(input, p) > p]_vars

\* The parse of the nested object of run_tests, 38 characters in three
\* containers, has returned.
C27_Witness ==
    /\ pc = "done"
    /\ Len(input) = 38
    /\ SubSeq(input, 1, 9) = <<"{", "\"", "n", "e", "s", "t", "e", "d", "\"">>
    /\ position = 38

\* The number of [ and { of text outside string literals less the number of
\* ] and } outside them; stated on the text alone.
Depth(text) ==
    LET mask == StringMask(text, 1, FALSE)
        Outside(cs) == {i \in 1..Len(text) : ~mask[i] /\ text[i] \in cs}
    IN  Cardinality(Outside({"[", "{"})) - Cardinality(Outside({"]", "}"}))

\* What has been consumed.
Consumed == SubSeq(input, 1, position)

\* C28: at every point of a parse the number of active parse_array and
\* parse_object invocations equals the number of [ and { consumed outside
\* string literals and not yet matched by a consumed ] or }; an invocation
\* that is about to start on a bracket is one deeper than those around it;
\* and no depth is refused: input that only opens arrays fails for its end,
\* not for its depth.
C28_NestingDepth ==
    /\ pc # "raised" => Len(stack) = Depth(Consumed)
    /\ (pc = "value" /\ Lookahead \in {"[", "{"}) =>
          Len(stack) + 1 = Depth(SubSeq(input, 1, LookaheadPos + 1))
    /\ (pc = "raised" /\ input # <<>> /\ Count(input, "[") = Len(input)) =>
          /\ outcome.kind = "ParseError"
          /\ outcome.message = <<"Unexpected end of input">>
          /\ outcome.position = Len(input)

\* Three invocations are active inside the object nested in the array nested
\* in the object of run_tests, which is that input's nesting depth.
C28_Witness ==
    /\ Len(stack) = 3
    /\ pc = "return"
    /\ ret = BoolVal(TRUE)
    /\ SubSeq(input, 1, 7) = <<"{", "\"", "a", "r", "r", "\"", ":">>
    /\ Depth(Consumed) = 3
    /\ \A i \in 0..Len(input) : Depth(SubSeq(input, 1, i)) <= 3

\* C29: whenever parse returns a value the cursor equals len(input) exactly,
\* never more: all of the input has been consumed, and every character after
\* the end of the top-level value is whitespace.
C29_CursorAtEnd ==
    Returned =>
       /\ position = Len(input)
       /\ Consumed = input
       /\ LET end == parse_value(input, 0).position
          IN  /\ 0 < end /\ end <= Len(input)
              /\ ~isspace(input[end])
              /\ AllWhitespace(SubSeq(input, end + 1, Len(input)))

\* parse has returned the object of run_tests that two spaces follow.
C29_Witness ==
    /\ Returned
    /\ input = Spaced
    /\ position = 23
    /\ parse_value(input, 0).position = 21

(***************************************************************************)
(* LinkedList                                                              *)
(*                                                                         *)
(* Node objects live in nodes, a heap of MaxSize cells; a reference is the *)
(* index of a cell, Nil for None.  A list is the record of its three       *)
(* fields and the heap; each method is an operator from the list to the    *)
(* list it leaves, with what it returns where that is not self.  Values    *)
(* are strings, so that a returned None is one of them.                    *)
(***************************************************************************)
RECURSIVE Reach(_, _, _)
\* The cells met from reference n by following next, fuel steps at most.
Reach(ns, n, fuel) ==
    IF n = Nil \/ fuel = 0 THEN {}
    ELSE {n} \cup Reach(ns, ns[n].next, fuel - 1)

\* The objects the list still refers to; the others are garbage.
Live(L) == Reach(L.nodes, L.head, MaxSize) \cup ({L.tail} \ {Nil})

\* The list with the cells of garbage objects free again.
Collect(L) ==
    [L EXCEPT !.nodes = [i \in Cells |-> IF i \in Live(L) THEN L.nodes[i] ELSE FreeNode]]

\* Node(value): the cell of the new object.
NewNode(L) == CHOOSE i \in Cells \ Live(L) : \A j \in Cells \ Live(L) : i <= j

RECURSIVE NodeEq(_, _, _)
\* a == b for two references: the __eq__ a dataclass generates compares the
\* tuples (value, next), element by element, identical elements being equal.
NodeEq(ns, a, b) ==
    \/ a = b
    \/ /\ a # Nil
       /\ b # Nil
       /\ ns[a].value = ns[b].value
       /\ NodeEq(ns, ns[a].next, ns[b].next)

\* push_front(value)
push_front(L, value) ==
    LET node   == NewNode(L)
        nodes1 == [L.nodes EXCEPT ![node] = [value |-> value, next |-> Nil]]
    IN  IF L.head = Nil
        THEN [head |-> node, tail |-> node, size |-> L.size + 1, nodes |-> nodes1]
        ELSE [head |-> node, tail |-> L.tail, size |-> L.size + 1,
              nodes |-> [nodes1 EXCEPT ![node].next = L.head]]

\* push_back(value)
push_back(L, value) ==
    LET node   == NewNode(L)
        nodes1 == [L.nodes EXCEPT ![node] = [value |-> value, next |-> Nil]]
    IN  IF L.tail = Nil
        THEN [head |-> node, tail |-> node, size |-> L.size + 1, nodes |-> nodes1]
        ELSE [head |-> L.head, tail |-> node, size |-> L.size + 1,
              nodes |-> [nodes1 EXCEPT ![L.tail].next = node]]

\* pop_front(): the list it leaves and the value it returns.
pop_front(L) ==
    IF L.head = Nil THEN [list |-> L, result |-> None]
    ELSE LET next == L.nodes[L.head].next
         IN  [list   |-> [head |-> next,
                          tail |-> IF next = Nil THEN Nil ELSE L.tail,
                          size |-> L.size - 1,
                          nodes |-> L.nodes],
              result |-> L.nodes[L.head].value]

RECURSIVE delete_loop_size(_, _, _, _)
\* The loop of delete without the decrement of _size.
delete_loop_size(L, value, prev, current) ==
    IF current = Nil THEN [list |-> L, result |-> None]
    ELSE IF L.nodes[current].value = value
    THEN LET nodes1 == [L.nodes EXCEPT ![prev].next = L.nodes[current].next]
         IN  [list   |-> [head |-> L.head,
                          tail |-> IF NodeEq(nodes1, current, L.tail) THEN prev
                                   ELSE L.tail,
                          size |-> L.size,
                          nodes |-> nodes1],
              result |-> value]
    ELSE delete_loop_size(L, value, current, L.nodes[current].next)

RECURSIVE delete_loop(_, _, _, _)
\* The while loop of delete, lines 112-121.
delete_loop(L, value, prev, current) ==
    IF current = Nil THEN [list |-> L, result |-> None]
    ELSE IF L.nodes[current].value = value
    THEN LET nodes1 == [L.nodes EXCEPT ![prev].next = L.nodes[current].next]
         IN  [list   |-> [head |-> L.head,
                          tail |-> IF NodeEq(nodes1, current, L.tail) THEN prev
                                   ELSE L.tail,
                          size |-> L.size - 1,
                          nodes |-> nodes1],
              result |-> value]
    ELSE delete_loop(L, value, current, L.nodes[current].next)

\* delete(value)
delete(L, value) ==
    IF L.head = Nil THEN [list |-> L, result |-> None]
    ELSE IF L.nodes[L.head].value = value THEN pop_front(L)
    ELSE delete_loop(L, value, L.head, L.nodes[L.head].next)

RECURSIVE reverse_loop(_, _, _)
\* The while loop of reverse: the heap and prev when it ends.
reverse_loop(ns, prev, current) ==
    IF current = Nil THEN [nodes |-> ns, prev |-> prev]
    ELSE reverse_loop([ns EXCEPT ![current].next = prev], current, ns[current].next)

\* reverse() that leaves _tail where it was.
reverse_keep_tail(L) ==
    IF L.size <= 1 THEN L
    ELSE LET r == reverse_loop(L.nodes, Nil, L.head)
         IN  [head |-> r.prev, tail |-> L.tail, size |-> L.size, nodes |-> r.nodes]

\* reverse()
reverse(L) ==
    IF L.size <= 1 THEN L
    ELSE LET r == reverse_loop(L.nodes, Nil, L.head)
         IN  [head |-> r.prev, tail |-> L.head, size |-> L.size, nodes |-> r.nodes]

\* clear()
clear(L) == [head |-> Nil, tail |-> Nil, size |-> 0, nodes |-> L.nodes]

\* front
front(L) == IF L.head # Nil THEN L.nodes[L.head].value ELSE None

\* back
back(L) == IF L.tail # Nil THEN L.nodes[L.tail].value ELSE None

RECURSIVE iter(_, _, _)
\* __iter__: the values met from current; fuel ends a walk that would not.
iter(ns, current, fuel) ==
    IF current = Nil \/ fuel = 0 THEN <<>>
    ELSE <<ns[current].value>> \o iter(ns, ns[current].next, fuel - 1)

\* to_list()
to_list(L) == iter(L.nodes, L.head, MaxSize + 1)

\* The list as the four variables hold it.
Self == [head |-> head, tail |-> tail, size |-> size, nodes |-> nodes]

\* LinkedList()
ListInit ==
    /\ ListNew
    /\ input = <<>>
    /\ position = 0
    /\ pc = "list"
    /\ stack = <<>>
    /\ ret = NoValue
    /\ outcome = NoOutcome
    /\ StoreNew

\* A method has left the list L and returned result.
Leaves(L, result) ==
    /\ head' = L.head
    /\ tail' = L.tail
    /\ size' = L.size
    /\ nodes' = Collect(L).nodes
    /\ retval' = result
    /\ UNCHANGED <<vars, storevars>>

\* The sequence without its first occurrence of value.
Without(seq, value) ==
    IF \E i \in 1..Len(seq) : seq[i] = value
    THEN LET i == CHOOSE k \in 1..Len(seq) :
                     seq[k] = value /\ \A j \in 1..(k - 1) : seq[j] # value
         IN  SubSeq(seq, 1, i - 1) \o SubSeq(seq, i + 1, Len(seq))
    ELSE seq

Reversed(seq) == [i \in 1..Len(seq) |-> seq[Len(seq) + 1 - i]]

\* Each action is the call of a method together with the same operation on
\* the plain sequence elements.  The model holds MaxSize objects at most.
PushFront(value) ==
    /\ size < MaxSize
    /\ Leaves(push_front(Self, value), "self")
    /\ elements' = <<value>> \o elements

PushBack(value) ==
    /\ size < MaxSize
    /\ Leaves(push_back(Self, value), "self")
    /\ elements' = Append(elements, value)

PopFront ==
    /\ Leaves(pop_front(Self).list, pop_front(Self).result)
    /\ elements' = IF elements = <<>> THEN <<>> ELSE Tail(elements)

Delete(value) ==
    /\ Leaves(delete(Self, value).list, delete(Self, value).result)
    /\ elements' = Without(elements, value)

Reverse ==
    /\ Leaves(reverse(Self), "self")
    /\ elements' = Reversed(elements)

Clear ==
    /\ Leaves(clear(Self), None)
    /\ elements' = <<>>

ListNext ==
    \/ \E value \in Values : PushFront(value)
    \/ \E value \in Values : PushBack(value)
    \/ PopFront
    \/ \E value \in Values : Delete(value)
    \/ Reverse
    \/ Clear

ListSpec == ListInit /\ [][ListNext]_listvars

(***************************************************************************)
(* Properties of LinkedList                                                *)
(***************************************************************************)
\* The list as the variables hold it after a step.
SelfAfter == [head |-> head', tail |-> tail', size |-> size', nodes |-> nodes']

\* C25: LinkedList refines a sequence.  After every call to_list() is the
\* sequence the same operation gives on the model sequence (prepend, append,
\* drop the first element, drop the first occurrence of v, reverse, empty),
\* front and back are its first and last elements and size its length;
\* pop_front returns the first element, or None on the empty list, and
\* delete(v) returns v if v occurs and None otherwise, the list then being
\* unchanged.
C25_Refinement ==
    [][/\ to_list(SelfAfter) = elements'
       /\ size' = Len(elements')
       /\ front(SelfAfter) = IF elements' = <<>> THEN None ELSE Head(elements')
       /\ back(SelfAfter) =
             IF elements' = <<>> THEN None ELSE elements'[Len(elements')]
       /\ PopFront =>
             /\ retval' = IF elements = <<>> THEN None ELSE Head(elements)
             /\ elements = <<>> => to_list(SelfAfter) = to_list(Self)
       /\ \A value \in Values :
             Delete(value) =>
                IF \E i \in 1..Len(elements) : elements[i] = value
                THEN /\ retval' = value
                     /\ Len(to_list(SelfAfter)) = Len(to_list(Self)) - 1
                ELSE /\ retval' = None
                     /\ to_list(SelfAfter) = to_list(Self)]_listvars

\* delete("a") has taken the a between two b out of the list b, a, b, or
\* pop_front() the a before them.
C25_Witness ==
    /\ retval = "a"
    /\ elements = <<"b", "b">>
    /\ to_list(Self) = <<"b", "b">>
    /\ size = 2
    /\ front(Self) = "b"
    /\ back(Self) = "b"

RECURSIVE Chain(_, _)
\* The cells met from reference n by following next, as a sequence, cut after
\* fuel cells; stated on the heap alone.
Chain(n, fuel) ==
    IF n = Nil \/ fuel = 0 THEN <<>>
    ELSE <<n>> \o Chain(nodes[n].next, fuel - 1)

\* The chain from head; a cycle makes it longer than the heap.
FromHead == Chain(head, MaxSize + 1)

\* C30: after any sequence of push_front, push_back, pop_front, delete,
\* reverse and clear the chain from head is acyclic, size is the number of
\* nodes reachable from head, head is None iff tail is None iff size is 0,
\* and when the list is not empty tail is the last node reachable from head
\* and tail.next is None.
C30_Structure ==
    /\ Len(FromHead) <= MaxSize
    /\ \A i, j \in 1..Len(FromHead) : FromHead[i] = FromHead[j] => i = j
    /\ size = Len(FromHead)
    /\ (head = Nil) <=> (tail = Nil)
    /\ (head = Nil) <=> (size = 0)
    /\ head # Nil =>
          /\ tail = FromHead[Len(FromHead)]
          /\ nodes[tail].next = Nil

\* reverse() has turned a list of three nodes made by push_back: the chain
\* runs against the order the nodes were made in and tail is the first made.
C30_Witness ==
    /\ retval = "self"
    /\ elements = <<"b", "b", "a">>
    /\ FromHead = <<3, 2, 1>>
    /\ tail = 1
    /\ head = 3

(***************************************************************************)
(* TaskStore                                                               *)
(*                                                                         *)
(* A Task is a record of id, description and done; a description and the   *)
(* text of the file are sequences of characters.  path is the text of the  *)
(* file at self._path, None while the file does not exist.                 *)
(***************************************************************************)
MaxTasks   == 2
MaxDescLen == 2
MaxCalls   == 3

Task(id, description, done) == [id |-> id, description |-> description, done |-> done]

\* Task.to_line()
to_line(task) ==
    (IF task.done THEN <<"[", "x", "]">> ELSE <<"[", " ", "]">>)
        \o <<" ">> \o task.description

\* str.strip()
strip(s) == StripRight(StripLeft(s))

\* str.startswith(prefix)
startswith(s, prefix) == Len(s) >= Len(prefix) /\ SubSeq(s, 1, Len(prefix)) = prefix

\* Task.from_line(id, line)
from_line(id, line) ==
    LET stripped == strip(line)
    IN  IF startswith(stripped, <<"[", "x", "]">>)
        THEN Task(id, strip(SubSeq(stripped, 5, Len(stripped))), TRUE)
        ELSE IF startswith(stripped, <<"[", " ", "]">>)
        THEN Task(id, strip(SubSeq(stripped, 5, Len(stripped))), FALSE)
        ELSE Task(id, stripped, FALSE)

RECURSIVE join(_)
\* "\n".join(lines)
join(lines) ==
    IF lines = <<>> THEN <<>>
    ELSE IF Len(lines) = 1 THEN lines[1]
    ELSE lines[1] \o <<"\n">> \o join(Tail(lines))

\* os.linesep where the program runs (POSIX).
linesep == <<"\n">>

RECURSIVE write_text(_)
\* Path.write_text(content): text mode writes os.linesep for each "\n".
write_text(content) ==
    IF content = <<>> THEN <<>>
    ELSE (IF content[1] = "\n" THEN linesep ELSE <<content[1]>>)
            \o write_text(Tail(content))

RECURSIVE read_text(_)
\* Path.read_text(): text mode reads "\r\n" and "\r" as "\n".
read_text(data) ==
    IF data = <<>> THEN <<>>
    ELSE IF data[1] = "\r"
    THEN <<"\n">> \o read_text(IF Len(data) >= 2 /\ data[2] = "\n"
                               THEN SubSeq(data, 3, Len(data)) ELSE Tail(data))
    ELSE <<data[1]>> \o read_text(Tail(data))

RECURSIVE splitlines(_, _)
\* str.splitlines(): text is what is left, line the line being read; a line
\* ends at "\n", "\r" or "\r\n", and no empty line follows the last break.
splitlines(text, line) ==
    IF text = <<>> THEN (IF line = <<>> THEN <<>> ELSE <<line>>)
    ELSE IF text[1] = "\r" /\ Len(text) >= 2 /\ text[2] = "\n"
    THEN <<line>> \o splitlines(SubSeq(text, 3, Len(text)), <<>>)
    ELSE IF text[1] \in {"\n", "\r"}
    THEN <<line>> \o splitlines(Tail(text), <<>>)
    ELSE splitlines(Tail(text), Append(line, text[1]))

\* save(tasks): the text written.
save(ts) ==
    LET content == join([i \in 1..Len(ts) |-> to_line(ts[i])])
    IN  write_text(IF content # <<>> THEN content \o <<"\n">> ELSE content)

RECURSIVE load_lines(_, _)
\* The loop of load over the lines from the i-th on.
load_lines(lines, i) ==
    IF i > Len(lines) THEN <<>>
    ELSE (IF strip(lines[i]) # <<>> THEN <<from_line(i, lines[i])>> ELSE <<>>)
            \o load_lines(lines, i + 1)

\* load()
load(file) ==
    IF file = None THEN <<>>
    ELSE load_lines(splitlines(read_text(file), <<>>), 1)

DescAlphabet == {"a", " ", "\n", "\r"}

Descriptions == StringsUpTo(DescAlphabet, MaxDescLen)

\* The tasks of run_tests and every task with a short description; an id is
\* what the caller gave, not always the task's place in the list.
Tasks ==
    {Task(id, d, done) : id \in {1, 2}, d \in Descriptions, done \in BOOLEAN}
      \cup {Task(1, <<"T", "a", "s", "k", " ", "1">>, FALSE),
            Task(2, <<"T", "a", "s", "k", " ", "2">>, TRUE)}

TaskLists == StringsUpTo(Tasks, MaxTasks)

\* TaskStore(file_path), the file not existing, and the list of tasks its
\* caller will pass to save.
StoreInit ==
    /\ path = None
    /\ tasks \in TaskLists
    /\ loaded = <<>>
    /\ calls = <<>>
    /\ ListNew
    /\ input = <<>>
    /\ position = 0
    /\ pc = "store"
    /\ stack = <<>>
    /\ ret = NoValue
    /\ outcome = NoOutcome

\* save(tasks).  The model follows MaxCalls calls.
Save ==
    /\ Len(calls) < MaxCalls
    /\ path' = save(tasks)
    /\ calls' = Append(calls, "save")
    /\ UNCHANGED <<tasks, loaded, vars, listvars>>

\* load()
Load ==
    /\ Len(calls) < MaxCalls
    /\ loaded' = load(path)
    /\ calls' = Append(calls, "load")
    /\ UNCHANGED <<path, tasks, vars, listvars>>

StoreNext == Save \/ Load

StoreSpec == StoreInit /\ [][StoreNext]_storevars

(***************************************************************************)
(* Properties of TaskStore                                                 *)
(***************************************************************************)
\* load() has just followed save(tasks).
SavedThenLoaded ==
    /\ Len(calls) >= 2
    /\ calls[Len(calls) - 1] = "save"
    /\ calls[Len(calls)] = "load"

\* C26: for every list of tasks, save(tasks) followed by load() returns as
\* many tasks in the same order, each with its description and done flag
\* unchanged and the ids numbered 1..n; equivalently from_line(i,
\* t.to_line()) has t's description and done flag, for every description.
C26_RoundTrip ==
    /\ SavedThenLoaded =>
          /\ Len(loaded) = Len(tasks)
          /\ \A i \in 1..Len(loaded) :
                /\ i <= Len(tasks)
                /\ loaded[i].description = tasks[i].description
                /\ loaded[i].done = tasks[i].done
                /\ loaded[i].id = i
    /\ (calls # <<>> /\ calls[Len(calls)] = "save") =>
          \A i \in 1..Len(tasks) :
             /\ from_line(i, to_line(tasks[i])).description = tasks[i].description
             /\ from_line(i, to_line(tasks[i])).done = tasks[i].done

=============================================================================
